---------------------------- MODULE Spec2Model ----------------------------
(***************************************************************************)
(* Model of the endpoint-detail extraction engine of s3-mcp-server         *)
(* (internal/server: handleGetEndpointDetails, searchEndpointInContent,    *)
(* pathMatches, isHTTPMethod, formatEndpointDetails).                      *)
(*                                                                         *)
(* A Go string is modelled as a sequence of characters, each character a   *)
(* one-element TLA+ string; a multi-byte symbol (an emoji) is one          *)
(* character with a symbolic name.  A text made of "\n"-terminated lines   *)
(* is modelled as the sequence of its lines.                               *)
(***************************************************************************)
EXTENDS Integers, Sequences, FiniteSets, TLC

(***************************************************************************)
(* Bounds of the model (not program constants).                            *)
(***************************************************************************)
MaxPathLen == 3
MaxBody == 3
MaxFiles == 3
MaxDetails == 3

(***************************************************************************)
(* The Go strings package, as far as the engine uses it.                   *)
(***************************************************************************)
Sp(n) == [k \in 1..n |-> " "]

Range(f) == {f[k] : k \in DOMAIN f}

HasPrefix(s, prefix) ==
    /\ Len(prefix) <= Len(s)
    /\ SubSeq(s, 1, Len(prefix)) = prefix

HasSuffix(s, suffix) ==
    /\ Len(suffix) <= Len(s)
    /\ SubSeq(s, Len(s) - Len(suffix) + 1, Len(s)) = suffix

Contains(s, substr) ==
    \E k \in 0..(Len(s) - Len(substr)) : SubSeq(s, k + 1, k + Len(substr)) = substr

TrimSuffix(s, suffix) ==
    IF HasSuffix(s, suffix) THEN SubSeq(s, 1, Len(s) - Len(suffix)) ELSE s

WhiteSpace == {" ", "\t", "\r", "\n"}

\* number of leading characters of s that belong to cutset
LeadingIn(s, cutset) ==
    CHOOSE n \in 0..Len(s) :
        /\ \A k \in 1..n : s[k] \in cutset
        /\ (n = Len(s) \/ s[n + 1] \notin cutset)

\* number of trailing characters of s that belong to cutset
TrailingIn(s, cutset) ==
    CHOOSE n \in 0..Len(s) :
        /\ \A k \in (Len(s) - n + 1)..Len(s) : s[k] \in cutset
        /\ (n = Len(s) \/ s[Len(s) - n] \notin cutset)

TrimLeft(s, cutset) == SubSeq(s, LeadingIn(s, cutset) + 1, Len(s))

TrimSpace(s) ==
    LET t == TrimLeft(s, WhiteSpace)
    IN  SubSeq(t, 1, Len(t) - TrailingIn(t, WhiteSpace))

\* strings.Split(s, sep)[0] for a one-character separator
SplitFirst(s, sep) ==
    IF \E k \in 1..Len(s) : s[k] = sep
    THEN SubSeq(s, 1, (CHOOSE k \in 1..Len(s) :
                          s[k] = sep /\ \A j \in 1..(k - 1) : s[j] # sep) - 1)
    ELSE s

LowerLetters == <<"a","b","c","d","e","f","g","h","i","j","k","l","m",
                  "n","o","p","q","r","s","t","u","v","w","x","y","z">>
UpperLetters == <<"A","B","C","D","E","F","G","H","I","J","K","L","M",
                  "N","O","P","Q","R","S","T","U","V","W","X","Y","Z">>

LetterIndex(letters, c) == CHOOSE k \in 1..26 : letters[k] = c

ToUpperChar(c) ==
    IF \E k \in 1..26 : LowerLetters[k] = c
    THEN UpperLetters[LetterIndex(LowerLetters, c)] ELSE c

ToLowerChar(c) ==
    IF \E k \in 1..26 : UpperLetters[k] = c
    THEN LowerLetters[LetterIndex(UpperLetters, c)] ELSE c

ToUpper(s) == [k \in 1..Len(s) |-> ToUpperChar(s[k])]
ToLower(s) == [k \in 1..Len(s) |-> ToLowerChar(s[k])]

(***************************************************************************)
(* pathMatches: does the search path match the endpoint path?              *)
(***************************************************************************)
\* pathMatches without the partial match "endpoint contains search path"
pathMatches_noPartial(endpointPath, searchPath) ==
    IF endpointPath = searchPath THEN TRUE
    ELSE IF Contains(endpointPath, <<"{">>)
         THEN LET basePath == TrimSuffix(SplitFirst(endpointPath, "{"), <<"/">>)
              IN  basePath = searchPath \/ Contains(basePath, searchPath)
         ELSE FALSE

\* pathMatches with strings.HasPrefix in place of strings.Contains
pathMatches_prefix(endpointPath, searchPath) ==
    IF endpointPath = searchPath THEN TRUE
    ELSE IF HasPrefix(endpointPath, searchPath) THEN TRUE
    ELSE IF Contains(endpointPath, <<"{">>)
         THEN LET basePath == TrimSuffix(SplitFirst(endpointPath, "{"), <<"/">>)
              IN  basePath = searchPath \/ HasPrefix(basePath, searchPath)
         ELSE FALSE

\* pathMatches with the arguments of the base-path containment exchanged
pathMatches_reversed(endpointPath, searchPath) ==
    IF endpointPath = searchPath THEN TRUE
    ELSE IF Contains(endpointPath, searchPath) THEN TRUE
    ELSE IF Contains(endpointPath, <<"{">>)
         THEN LET basePath == TrimSuffix(SplitFirst(endpointPath, "{"), <<"/">>)
              IN  basePath = searchPath \/ Contains(searchPath, basePath)
         ELSE FALSE

pathMatches(endpointPath, searchPath) ==
    IF endpointPath = searchPath THEN TRUE
    ELSE IF Contains(endpointPath, searchPath) THEN TRUE
    ELSE IF Contains(endpointPath, <<"{">>)
         THEN LET basePath == TrimSuffix(SplitFirst(endpointPath, "{"), <<"/">>)
              IN  basePath = searchPath \/ Contains(basePath, searchPath)
         ELSE FALSE

(***************************************************************************)
(* isHTTPMethod: is the string one of the seven HTTP verbs, in any case?   *)
(***************************************************************************)
httpMethods == <<<<"g","e","t">>, <<"p","o","s","t">>, <<"p","u","t">>, <<"d","e","l","e","t","e">>, <<"p","a","t","c","h">>, <<"h","e","a","d">>, <<"o","p","t","i","o","n","s">>>>

isHTTPMethod(m) == \E k \in 1..Len(httpMethods) : httpMethods[k] = ToLower(m)

(***************************************************************************)
(* Line measurements of searchEndpointInContent.                           *)
(***************************************************************************)
RootMarker == <<"p","a","t","h","s",":">>

\* indent := len(line) - len(strings.TrimLeft(line, " "))
Indent(line) == Len(line) - Len(TrimLeft(line, {" "}))

\* strings.HasSuffix(trimmed, ":") && !strings.Contains(trimmed, " ")
IsBareKey(trimmed) == HasSuffix(trimmed, <<":">>) /\ ~Contains(trimmed, <<" ">>)

PathIndentMax == 2

\* the condition under which a line starts a new path
IsPathKey(line) == IsBareKey(TrimSpace(line)) /\ Indent(line) <= PathIndentMax

\* the condition under which a line starts a method of the current path
IsMethodKey(line, matches, level) ==
    /\ matches
    /\ HasSuffix(TrimSpace(line), <<":">>)
    /\ Indent(line) > level
    /\ isHTTPMethod(TrimSuffix(TrimSpace(line), <<":">>))

\* the method key as it is written
MethodOfKey_asWritten(trimmed) == TrimSuffix(trimmed, <<":">>)

\* "currentMethod = strings.ToUpper(methodName)"
MethodOfKey(trimmed) == ToUpper(TrimSuffix(trimmed, <<":">>))

\* the substrings that make a line of a matching endpoint worth keeping
ImportantFields ==
    {<<"s","u","m","m","a","r","y",":">>, <<"d","e","s","c","r","i","p","t","i","o","n",":">>, <<"r","e","s","p","o","n","s","e","s",":">>, <<"r","e","q","u","e","s","t","B","o","d","y",":">>,
     <<"p","a","r","a","m","e","t","e","r","s",":">>, <<"b","l","o","c","k","e","d","_","r","e","a","s","o","n">>, <<"s","c","h","e","m","a",":">>, <<"$","r","e","f",":">>,
     <<"t","y","p","e",":">>, <<"p","r","o","p","e","r","t","i","e","s",":">>, <<"e","x","a","m","p","l","e",":">>}

IsImportant_any(trimmed) == TRUE

IsImportant(trimmed) == \E f \in ImportantFields : Contains(trimmed, f)

LookaheadGuard == 10
LookaheadLimit == 20

\* a lookahead that stops only at the end of its range
LookaheadStops_never(nextLine, indent) == FALSE

\* "if nextIndent <= indent && (HasSuffix(nextTrimmed, ":") && !Contains(nextTrimmed, " "))"
LookaheadStops(nextLine, indent) ==
    Indent(nextLine) <= indent /\ IsBareKey(TrimSpace(nextLine))

\* the loop condition without the test against the number of lines
LookaheadGoesOn_unbounded(ls, j, i0) == j < i0 + LookaheadLimit

\* "j < len(lines) && j < i+20"
LookaheadGoesOn(ls, j, i0) == j < Len(ls) /\ j < i0 + LookaheadLimit

\* lines[j] is an access out of range, at which the Go run time panics
OutOfRange(ls, j) == j < 0 \/ j >= Len(ls)

\* the (0-based) indices of the lines appended by the loop
\* "for j := i + 1; j < len(lines) && j < i+20; j++", started at the responses
\* line with index i0 and indentation indent
RECURSIVE LookaheadFrom(_, _, _, _)
LookaheadFrom(ls, j, i0, indent) ==
    IF ~LookaheadGoesOn(ls, j, i0) THEN <<>>
    ELSE IF OutOfRange(ls, j) THEN <<>>
    ELSE IF LookaheadStops(ls[j + 1], indent) THEN <<>>
    ELSE <<j>> \o LookaheadFrom(ls, j + 1, i0, indent)

\* whether that loop ends in an access out of range
RECURSIVE LookaheadPanics(_, _, _, _)
LookaheadPanics(ls, j, i0, indent) ==
    IF ~LookaheadGoesOn(ls, j, i0) THEN FALSE
    ELSE IF OutOfRange(ls, j) THEN TRUE
    ELSE IF LookaheadStops(ls[j + 1], indent) THEN FALSE
    ELSE LookaheadPanics(ls, j + 1, i0, indent)

\* "if strings.Contains(trimmed, "responses:") && i+10 < len(lines)"
LooksAhead(ls, i0) ==
    Contains(TrimSpace(ls[i0 + 1]), <<"r","e","s","p","o","n","s","e","s",":">>) /\ i0 + LookaheadGuard < Len(ls)

\* the indices of the lines that one pass of the collecting branch appends to
\* endpointDetails, in order
CollectedAt(ls, i0) ==
    LET line == ls[i0 + 1]
        trimmed == TrimSpace(line)
    IN  (IF IsImportant(trimmed) THEN <<i0>> ELSE <<>>)
        \o (IF LooksAhead(ls, i0)
            THEN LookaheadFrom(ls, i0 + 1, i0, Indent(line))
            ELSE <<>>)

\* whether that pass ends in an access out of range
CollectPanics(ls, i0) ==
    LooksAhead(ls, i0) /\ LookaheadPanics(ls, i0 + 1, i0, Indent(ls[i0 + 1]))

LinesAt(ls, idx) == [k \in 1..Len(idx) |-> ls[idx[k] + 1]]

(***************************************************************************)
(* formatEndpointDetails: the rendering of one endpoint, as the sequence   *)
(* of its output lines.                                                    *)
(***************************************************************************)
E_mag == "U+1F50D"
E_memo == "U+1F4DD"
E_book == "U+1F4D6"
E_wrench == "U+1F527"
E_outbox == "U+1F4E4"
E_inbox == "U+1F4E5"
E_red == "U+1F534"
E_page == "U+1F4C4"
E_cross == "U+274C"
E_target == "U+1F3AF"

NoGroups == [summary |-> <<>>, description |-> <<>>, parameters |-> <<>>,
             requestBody |-> <<>>, responses |-> <<>>]

\* the description test without "&& !inResponsesSection"
IsDescription_anywhere(trimmed, inResp) == Contains(trimmed, <<"d","e","s","c","r","i","p","t","i","o","n",":">>)

\* "strings.Contains(trimmed, "description:") && !inResponsesSection"
IsDescription(trimmed, inResp) == Contains(trimmed, <<"d","e","s","c","r","i","p","t","i","o","n",":">>) /\ ~inResp

\* one iteration of the grouping loop: g are the groups so far, inResp is
\* inResponsesSection; the result carries both
GroupStep(g, inResp, detail) ==
    LET trimmed == TrimSpace(detail)
    IN  IF Contains(trimmed, <<"s","u","m","m","a","r","y",":">>)
        THEN [g |-> [g EXCEPT !.summary = Append(@, detail)], inResp |-> inResp]
        ELSE IF IsDescription(trimmed, inResp)
        THEN [g |-> [g EXCEPT !.description = Append(@, detail)], inResp |-> inResp]
        ELSE IF Contains(trimmed, <<"p","a","r","a","m","e","t","e","r","s",":">>)
        THEN [g |-> [g EXCEPT !.parameters = Append(@, detail)], inResp |-> inResp]
        ELSE IF Contains(trimmed, <<"r","e","q","u","e","s","t","B","o","d","y",":">>)
        THEN [g |-> [g EXCEPT !.requestBody = Append(@, detail)], inResp |-> inResp]
        ELSE IF Contains(trimmed, <<"r","e","s","p","o","n","s","e","s",":">>)
        THEN [g |-> [g EXCEPT !.responses = Append(@, detail)], inResp |-> TRUE]
        ELSE IF inResp
        THEN [g |-> [g EXCEPT !.responses = Append(@, detail)], inResp |-> inResp]
        ELSE [g |-> g, inResp |-> inResp]

RECURSIVE GroupFrom(_, _, _)
GroupFrom(details, k, st) ==
    IF k > Len(details) THEN st
    ELSE GroupFrom(details, k + 1, GroupStep(st.g, st.inResp, details[k]))

GroupDetails(details) == GroupFrom(details, 1, [g |-> NoGroups, inResp |-> FALSE]).g

HeaderLine(method, path) == <<E_mag>> \o <<" ","*","*">> \o method \o <<" ">> \o path \o <<"*","*">>

NoDetailLine == <<" "," "," ","N","o"," ","d","e","t","a","i","l","e","d"," ","i","n","f","o","r","m","a","t","i","o","n"," ","f","o","u","n","d",".">>

H_summary == <<" "," "," ">> \o <<E_memo>> \o <<" ","S","u","m","m","a","r","y",":">>
H_description == <<" "," "," ">> \o <<E_book>> \o <<" ","D","e","s","c","r","i","p","t","i","o","n",":">>
H_parameters == <<" "," "," ">> \o <<E_wrench>> \o <<" ","P","a","r","a","m","e","t","e","r","s",":">>
H_requestBody == <<" "," "," ">> \o <<E_outbox>> \o <<" ","R","e","q","u","e","s","t"," ","B","o","d","y",":">>
H_responses == <<" "," "," ">> \o <<E_inbox>> \o <<" ","R","e","s","p","o","n","s","e","s",":">>

PlainLine(s) == <<" "," "," ">> \o s
FlaggedLine(s) == <<" "," "," ">> \o <<E_red>> \o <<" ">> \o s

\* a section that is written with its heading even when it is empty
Section_always(heading, ls) == <<heading>> \o [k \in 1..Len(ls) |-> PlainLine(ls[k])]

Section(heading, ls) ==
    IF Len(ls) > 0 THEN <<heading>> \o [k \in 1..Len(ls) |-> PlainLine(ls[k])] ELSE <<>>

\* the test for the sensitive field without the lower-casing
IsSensitive_asWritten(r) == Contains(r, <<"b","l","o","c","k","e","d","_","r","e","a","s","o","n">>)

\* "strings.Contains(strings.ToLower(r), "blocked_reason")"
IsSensitive(r) == Contains(ToLower(r), <<"b","l","o","c","k","e","d","_","r","e","a","s","o","n">>)

ResponsesSection(ls) ==
    IF Len(ls) > 0
    THEN <<H_responses>> \o
         [k \in 1..Len(ls) |->
            IF IsSensitive(ls[k]) THEN FlaggedLine(ls[k]) ELSE PlainLine(ls[k])]
    ELSE <<>>

\* the test made on the groups instead of the details
NoDetails_noGroups(details) == GroupDetails(details) = NoGroups

\* "if len(details) == 0"
NoDetails(details) == Len(details) = 0

formatEndpointDetails(path, method, details) ==
    IF NoDetails(details)
    THEN <<HeaderLine(method, path), NoDetailLine>>
    ELSE LET g == GroupDetails(details)
         IN  <<HeaderLine(method, path)>>
             \o Section(H_summary, g.summary)
             \o Section(H_description, g.description)
             \o Section(H_parameters, g.parameters)
             \o Section(H_requestBody, g.requestBody)
             \o ResponsesSection(g.responses)

(***************************************************************************)
(* Strings used by the claims about pathMatches.                           *)
(***************************************************************************)
P_cards == <<"/","c","a","r","d","s">>
P_pan == <<"/","p","a","n">>
P_cards_pan == <<"/","c","a","r","d","s","/","{","c","a","r","d","_","i","d","}","/","p","a","n">>
P_blocked == <<"b","l","o","c","k","e","d">>
P_cards_blocked == <<"/","c","a","r","d","s","/","b","l","o","c","k","e","d">>

PathChars == {"/", "a", "{"}

RECURSIVE StringsUpTo(_, _)
StringsUpTo(chars, n) ==
    IF n = 0 THEN {<<>>}
    ELSE LET shorter == StringsUpTo(chars, n - 1)
         IN  shorter \cup {Append(s, c) : s \in {t \in shorter : Len(t) = n - 1}, c \in chars}

PathStrings ==
    StringsUpTo(PathChars, MaxPathLen)
        \cup {P_cards, P_pan, P_cards_pan, P_blocked, P_cards_blocked}

(***************************************************************************)
(* Documents.  A document text is modelled by the result of                *)
(* strings.Split(content, "\n"): a non-empty sequence of lines; a text     *)
(* that ends with a newline has an empty last line.                        *)
(***************************************************************************)
L_paths == <<"p","a","t","h","s",":">>
L_users == <<" "," ","/","u","s","e","r","s",":">>
L_get == <<" "," "," "," ","g","e","t",":">>
L_post == <<" "," "," "," ","p","o","s","t",":">>
L_summary == <<" "," "," "," "," "," ","s","u","m","m","a","r","y",":"," ","L","i","s","t"," ","u","s","e","r","s">>
L_responses == <<" "," "," "," "," "," ","r","e","s","p","o","n","s","e","s",":">>
L_200 == <<" "," "," "," "," "," "," "," ","'","2","0","0","'",":">>
L_descOK == <<" "," "," "," "," "," "," "," "," "," ","d","e","s","c","r","i","p","t","i","o","n",":"," ","O","K">>
L_filler == <<" "," "," "," "," "," "," "," ","-"," ","x">>

\* the document of the "List users" scenario
DocUsers == <<L_paths, L_users, L_get, L_summary, L_responses, L_200, L_descOK, <<>>>>

\* a document with two methods under one path (the keys of the second in
\* alphabetical order), a parameterised path and a top-level section after
\* the path table
DocApi ==
    <<<<"o","p","e","n","a","p","i",":"," ","3",".","0",".","0">>,
      L_paths,
      L_users,
      L_get,
      L_summary,
      L_responses,
      L_200,
      L_descOK,
      L_post,
      L_responses,
      <<" "," "," "," "," "," "," "," ","'","2","0","1","'",":">>,
      <<" "," "," "," "," "," "," "," "," "," ","d","e","s","c","r","i","p","t","i","o","n",":"," ","C","r","e","a","t","e","d">>,
      <<" "," "," "," "," "," ","s","u","m","m","a","r","y",":"," ","C","r","e","a","t","e"," ","u","s","e","r">>,
      <<" "," ","/","c","a","r","d","s","/","{","c","a","r","d","_","i","d","}","/","p","a","n",":">>,
      L_get,
      <<" "," "," "," "," "," ","p","a","r","a","m","e","t","e","r","s",":">>,
      <<" "," "," "," "," "," "," "," ","-"," ","n","a","m","e",":"," ","c","a","r","d","_","i","d">>,
      L_responses,
      L_200,
      L_descOK,
      <<" "," "," "," "," "," "," "," "," "," ","s","c","h","e","m","a",":">>,
      <<" "," "," "," "," "," "," "," "," "," "," "," ","p","r","o","p","e","r","t","i","e","s",":">>,
      <<" "," "," "," "," "," "," "," "," "," "," "," "," "," ","b","l","o","c","k","e","d","_","r","e","a","s","o","n",":">>,
      <<" "," "," "," "," "," "," "," "," "," "," "," "," "," "," "," ","t","y","p","e",":"," ","s","t","r","i","n","g">>,
      <<"c","o","m","p","o","n","e","n","t","s",":">>,
      <<" "," ","s","c","h","e","m","a","s",":">>,
      <<" "," "," "," ","C","a","r","d",":">>,
      <<" "," "," "," "," "," ","t","y","p","e",":"," ","o","b","j","e","c","t">>,
      <<>>>>

\* the files a library bucket is made of: a content and whether GetYAMLFile
\* can read it
LibraryFiles ==
    {[lines |-> DocUsers, readable |-> TRUE],
     [lines |-> DocApi, readable |-> TRUE],
     [lines |-> DocApi, readable |-> FALSE]}

BodyLines == {L_users, L_get, L_post, L_summary, L_responses}

RECURSIVE SeqsUpTo(_, _)
SeqsUpTo(S, n) ==
    IF n = 0 THEN {<<>>}
    ELSE LET shorter == SeqsUpTo(S, n - 1)
         IN  shorter \cup {Append(s, x) : s \in {t \in shorter : Len(t) = n - 1}, x \in S}

\* lines that follow a generated body: none, or as many as a responses line
\* at the end of the body needs after it for its lookahead (the empty last
\* line included)
TailLen == LookaheadGuard - 1
Tails == {<<>>, [k \in 1..TailLen |-> L_filler]}

Bodies == SeqsUpTo(BodyLines, MaxBody)

\* generated documents: a body after the root marker and a first path key
\* (with and without a tail), a body after the root marker alone, and a body
\* without any root marker
GeneratedDocs ==
    {<<L_paths, L_users>> \o body \o tail \o <<<<>>>> : body \in Bodies, tail \in Tails}
    \cup {<<L_paths>> \o body \o <<<<>>>> : body \in Bodies}
    \cup {body \o <<<<>>>> : body \in Bodies}

Q_users == <<"/","u","s","e","r","s">>
Q_missing == <<"/","m","i","s","s","i","n","g">>

(***************************************************************************)
(* The S3 client (internal/s3) and the bucket behind it.  An object of     *)
(* the bucket has a key, a content (as lines), and is readable or not: a   *)
(* HeadObject on an unreadable or missing object fails.  The order of the  *)
(* objects in the bucket is the order in which S3 lists them.              *)
(***************************************************************************)
\* config.S3Bucket
BucketName == <<"s","p","e","c","s">>

\* filepath.Ext: the suffix that starts at the last dot of the last element
Ext(key) ==
    IF \E k \in 1..Len(key) : key[k] = "." /\ \A j \in (k + 1)..Len(key) : key[j] \notin {".", "/"}
    THEN SubSeq(key,
                CHOOSE k \in 1..Len(key) :
                    key[k] = "." /\ \A j \in (k + 1)..Len(key) : key[j] \notin {".", "/"},
                Len(key))
    ELSE <<>>

\* every object counts as a YAML file
isYAMLFile_any(key) == TRUE

isYAMLFile(key) ==
    LET ext == ToLower(Ext(key))
    IN  ext = <<".","y","a","m","l">> \/ ext = <<".","y","m","l">>

\* filepath.Base, by which extractFileName names a file
extractFileName(key) ==
    IF key = <<>> THEN <<".">>
    ELSE LET t == SubSeq(key, 1, Len(key) - TrailingIn(key, {"/"}))
         IN  IF t = <<>> THEN <<"/">>
             ELSE IF \E k \in 1..Len(t) : t[k] = "/"
             THEN SubSeq(t, (CHOOSE k \in 1..Len(t) :
                                t[k] = "/" /\ \A j \in (k + 1)..Len(t) : t[j] # "/") + 1, Len(t))
             ELSE t

\* the listing of ListYAMLFiles(prefix), as the indices of the listed objects
ListYAMLFiles(b, prefix) ==
    SelectSeq([k \in 1..Len(b) |-> k],
              LAMBDA k : HasPrefix(b[k].key, prefix) /\ isYAMLFile(b[k].key))

\* the matches of SearchYAMLFiles(pattern)
SearchYAMLFiles(b, pattern) ==
    SelectSeq(ListYAMLFiles(b, <<>>),
              LAMBDA k : \/ Contains(ToLower(extractFileName(b[k].key)), ToLower(pattern))
                         \/ Contains(ToLower(b[k].key), ToLower(pattern)))

\* the object GetYAMLFile(key) asks S3 for: its index in the bucket, 0 if
\* there is no such object
ObjectAt(b, key) ==
    IF \E k \in 1..Len(b) : b[k].key = key
    THEN CHOOSE k \in 1..Len(b) : b[k].key = key
    ELSE 0

\* the outcome of GetYAMLFile(key): "rejected" before any S3 call, "failed"
\* at the HeadObject call, or "ok"
GetYAMLFile(b, key) ==
    IF ~isYAMLFile(key) THEN "rejected"
    ELSE IF ObjectAt(b, key) = 0 THEN "failed"
    ELSE IF ~b[ObjectAt(b, key)].readable THEN "failed"
    ELSE "ok"

S3Call(op, key, id) == [op |-> op, key |-> key, request |-> id]

\* the S3 calls GetYAMLFile(key) makes while message id is handled
GetYAMLFileCalls(b, key, id) ==
    IF GetYAMLFile(b, key) = "rejected" THEN <<>>
    ELSE IF GetYAMLFile(b, key) = "failed" THEN <<S3Call("HeadObject", key, id)>>
    ELSE <<S3Call("HeadObject", key, id), S3Call("GetObject", key, id)>>

\* strips the scheme and takes whatever follows as the key
extractS3Key_anyBucket(uri) ==
    IF HasPrefix(uri, <<"s","3",":","/","/">>) THEN SubSeq(uri, 6, Len(uri)) ELSE <<>>

extractS3Key(uri) ==
    LET prefix == <<"s","3",":","/","/">> \o BucketName \o <<"/">>
    IN  IF HasPrefix(uri, prefix) THEN SubSeq(uri, Len(prefix) + 1, Len(uri)) ELSE <<>>

FileNames == <<<<"a",".","y","a","m","l">>, <<"b",".","y","a","m","l">>, <<"c",".","y","a","m","l">>, <<"d",".","y","a","m","l">>>>

Modified == <<"2","0","2","4","-","0","1","-","0","1"," ","0","0",":","0","0",":","0","0">>

Object(key, content, readable) ==
    [key |-> key, lines |-> content, readable |-> readable,
     size |-> Len(content), modified |-> Modified]

File(k, content, readable) == Object(FileNames[k], content, readable)

(***************************************************************************)
(* Messages.  A line of the input is either text that json.Unmarshal       *)
(* rejects, or a request: its method and, as far as the handlers read      *)
(* them, its params (paramsOk: unmarshalParams succeeds; hasX: the         *)
(* argument X holds a JSON string, and then x is that string, otherwise x  *)
(* is the JSON text of what it holds).                                     *)
(***************************************************************************)
NoString == <<>>

\* The id of a JSON-RPC message: null (also: no id), or the integer
\* hi * 2^53 + lo.
NullId == [null |-> TRUE, hi |-> 0, lo |-> 0]
JsonInt(hi, lo) == [null |-> FALSE, hi |-> hi, lo |-> lo]

\* json.Unmarshal stores a JSON number in an interface{} as a float64, and
\* json.Marshal writes the float64 back: an integer below 2^53 is kept, and
\* an integer of [2^53, 2^54) is rounded to a multiple of 2, a tie going to
\* the multiple of 4
Float64_exact(n) == n
Float64(n) ==
    IF n.hi = 0 \/ n.lo % 2 = 0 THEN n
    ELSE [n EXCEPT !.lo = IF (n.lo - 1) % 4 = 0 THEN n.lo - 1 ELSE n.lo + 1]

Rpc(rpcMethod) ==
    [line |-> "request", id |-> JsonInt(0, 1), rpc |-> rpcMethod, paramsOk |-> TRUE,
     tool |-> "",
     uri |-> NoString,
     hasPattern |-> FALSE, pattern |-> NoString,
     hasPrefix |-> FALSE, prefix |-> NoString,
     hasPath |-> FALSE, path |-> NoString,
     hasMethod |-> FALSE, method |-> NoString]

Garbage == [Rpc("") EXCEPT !.line = "garbage"]

BadParams(rpcMethod) == [Rpc(rpcMethod) EXCEPT !.paramsOk = FALSE]

ReadResource(uri) == [Rpc("resources/read") EXCEPT !.uri = uri]

ToolCall(name) == [Rpc("tools/call") EXCEPT !.tool = name]

SearchCall(hasPattern, pattern) ==
    [ToolCall("search_yaml_files") EXCEPT !.hasPattern = hasPattern, !.pattern = pattern]

ListCall(hasPrefix, prefix) ==
    [ToolCall("list_yaml_files") EXCEPT !.hasPrefix = hasPrefix, !.prefix = prefix]

\* a call of get_endpoint_details
Request(hasPath, p, hasMethod, m) ==
    [ToolCall("get_endpoint_details") EXCEPT
        !.hasPath = hasPath, !.path = p, !.hasMethod = hasMethod, !.method = m]

\* the requests made against a generated document: the same path with no
\* method filter and with each verb of BodyLines as the filter
GeneratedRequests ==
    <<Request(TRUE, Q_users, FALSE, NoString),
      Request(TRUE, Q_users, TRUE, <<"g","e","t">>),
      Request(TRUE, Q_users, TRUE, <<"P","O","S","T">>)>>

\* documents whose method keys are written in several letter cases, and the
\* same verb given as the filter in several letter cases
CaseLines == {L_get, <<" "," "," "," ","G","E","T",":">>, <<" "," "," "," ","P","o","s","t",":">>, L_summary}

CaseDocs ==
    {<<L_paths, L_users>> \o body \o <<<<>>>> : body \in SeqsUpTo(CaseLines, MaxBody - 1)}

CaseRequests ==
    <<Request(TRUE, Q_users, TRUE, <<"g","e","t">>),
      Request(TRUE, Q_users, TRUE, <<"G","e","t">>),
      Request(TRUE, Q_users, TRUE, <<"G","E","T">>),
      Request(TRUE, Q_users, TRUE, <<"p","O","S","T">>)>>

LibraryRequests ==
    {Request(TRUE, Q_users, FALSE, NoString),
     Request(TRUE, Q_users, TRUE, <<"g","e","t">>),
     Request(TRUE, P_cards, FALSE, NoString),
     Request(TRUE, Q_missing, TRUE, <<"p","o","s","t">>),
     Request(TRUE, NoString, FALSE, NoString),
     Request(FALSE, <<"4","2">>, FALSE, NoString),
     Request(FALSE, NoString, FALSE, NoString)}

SeqsFromTo(S, lo, hi) == {s \in SeqsUpTo(S, hi) : Len(s) >= lo}

\* the buckets of library files; the content of a bucket that cannot be
\* listed plays no part
LibraryBuckets ==
    {[k \in 1..Len(fs) |-> File(k, fs[k].lines, fs[k].readable)] :
        fs \in SeqsFromTo(LibraryFiles, 1, MaxFiles)}

\* a bucket with objects that are not YAML files, keys with a directory and
\* an extension in upper case
K_notes == <<"n","o","t","e","s",".","t","x","t">>
K_api == <<"v","1","/","a","p","i",".","y","a","m","l">>
K_backup == <<"v","1","/","a","p","i",".","y","a","m","l",".","b","a","k">>
K_users == <<"v","2","/","U","s","e","r","s",".","Y","M","L">>
K_gone == <<"v","2","/","g","o","n","e",".","y","a","m","l">>

ProtocolBucket ==
    <<Object(K_notes, <<<<"p","a","t","h","s",":">>, <<>>>>, TRUE),
      Object(K_api, DocApi, TRUE),
      Object(K_backup, DocApi, TRUE),
      Object(K_users, DocUsers, TRUE)>>

S3Uri(bucketName, key) == <<"s","3",":","/","/">> \o bucketName \o <<"/">> \o key

ProtocolMessages ==
    {Garbage,
     Rpc("initialize"),
     Rpc("initialized"),
     Rpc("ping"),
     Rpc("resources/list"),
     BadParams("resources/read"),
     ReadResource(NoString),
     ReadResource(S3Uri(BucketName, K_api)),
     ReadResource(S3Uri(BucketName, K_users)),
     ReadResource(S3Uri(BucketName, K_notes)),
     ReadResource(S3Uri(BucketName, K_gone)),
     ReadResource(S3Uri(BucketName, NoString)),
     ReadResource(S3Uri(<<"o","t","h","e","r">>, K_api)),
     ReadResource(K_api),
     Rpc("tools/list"),
     BadParams("tools/call"),
     ToolCall("delete_yaml_file"),
     SearchCall(FALSE, NoString),
     SearchCall(TRUE, <<"A","P","I">>),
     SearchCall(TRUE, <<"v","2">>),
     SearchCall(TRUE, <<"n","o","t","e","s">>),
     ListCall(FALSE, NoString),
     ListCall(TRUE, <<"v","1","/">>),
     Request(TRUE, Q_users, TRUE, <<"G","e","t">>)}

(***************************************************************************)
(* State.                                                                  *)
(***************************************************************************)
VARIABLES
    pmEndpoint, pmSearch, pmCalled, pmResult, \* the pathMatches call under test
    fmDetails, fmCalled, fmResult,            \* the formatEndpointDetails call under test
    bucket,          \* the S3 bucket: files with name, content lines, readable
    listable,        \* whether ListYAMLFiles succeeds
    cancelled,       \* whether the context passed to Start is done
    terminated,      \* whether the last line of the input ends with a newline
    returned,        \* what Start has returned: "none" (it runs), "nil", "ctx"
    requests,        \* the lines of the input not yet read
    received,        \* history: the lines read so far
    responses,       \* messages written so far (answers: history, the line answered)
    s3Calls,         \* history: the calls made to S3
    pc,              \* "idle", "loop" (file loop), "scan" (line loop), "panic"
    path, method,    \* handleGetEndpointDetails: arguments after validation
    files,           \* ... the listing (indices into bucket)
    fileIdx,         \* ... number of files already visited
    foundEndpoints,  \* ... the per-file blocks found so far
    lines, i,        \* searchEndpointInContent: the lines and the loop index
    result, currentPath, currentMethod, inPaths, inEndpoint,
    pathMatchesFlag, \* the local variable pathMatches
    methodMatches, indentLevel, endpointDetails,
    detailIdx,       \* history: the line index each element of endpointDetails came from
    opened,          \* history: the method blocks opened by this scan
    finalized,       \* history: the calls of formatEndpointDetails of this scan
    scanLog          \* history: the scans completed so far

fmVars == <<fmDetails, fmCalled, fmResult>>

\* the variables of the calls under test
pmVars == <<pmEndpoint, pmSearch, pmCalled, pmResult, fmVars>>

envVars == <<bucket, listable, cancelled, terminated>>

ioVars == <<received, s3Calls>>

\* what the server has written and what Start has returned
outVars == <<responses, returned>>

handlerVars == <<path, method, files, fileIdx, foundEndpoints>>

scanVars == <<lines, i, result, currentPath, currentMethod, inPaths, inEndpoint,
              pathMatchesFlag, methodMatches, indentLevel, endpointDetails,
              detailIdx, opened, finalized>>

vars == <<pmVars, envVars, ioVars, requests, outVars, pc, handlerVars, scanVars, scanLog>>

\* "var result strings.Builder" and "var inPaths bool": the values the
\* locals of searchEndpointInContent start from
InitialResult_stale == result
InitialResult == <<>>
InitialInPaths_true == TRUE
InitialInPaths == FALSE

\* no scan has been made yet
ScanIdle ==
    /\ lines = <<>>
    /\ i = 0
    /\ result = <<>>
    /\ currentPath = <<>>
    /\ currentMethod = <<>>
    /\ inPaths = FALSE
    /\ inEndpoint = FALSE
    /\ pathMatchesFlag = FALSE
    /\ methodMatches = FALSE
    /\ indentLevel = 0
    /\ endpointDetails = <<>>
    /\ detailIdx = <<>>
    /\ opened = <<>>
    /\ finalized = <<>>

HandlerIdle ==
    /\ path = <<>>
    /\ method = <<>>
    /\ files = <<>>
    /\ fileIdx = 0
    /\ foundEndpoints = <<>>

FMIdle ==
    /\ fmDetails = <<>>
    /\ fmCalled = TRUE
    /\ fmResult = <<>>

PMIdle ==
    /\ pmEndpoint = <<>>
    /\ pmSearch = <<>>
    /\ pmCalled = TRUE
    /\ pmResult = TRUE
    /\ FMIdle

\* Start has entered its loop, the context is not done and the input is
\* made of whole lines
LoopIdle ==
    /\ cancelled = FALSE
    /\ terminated = TRUE
    /\ returned = "none"

ServerIdle ==
    /\ bucket = <<>>
    /\ listable = TRUE
    /\ LoopIdle
    /\ requests = <<>>
    /\ received = <<>>
    /\ responses = <<>>
    /\ s3Calls = <<>>
    /\ pc = "idle"
    /\ scanLog = <<>>
    /\ HandlerIdle
    /\ ScanIdle

\* one generated document, queried without and with a method filter
GeneratedInit ==
    /\ \E d \in GeneratedDocs : bucket = <<File(1, d, TRUE)>>
    /\ listable = TRUE
    /\ requests = GeneratedRequests

\* a bucket of library files and one request, or a bucket that cannot be
\* listed
LibraryInit ==
    /\ \/ bucket \in LibraryBuckets /\ listable = TRUE
       \/ bucket = <<>> /\ listable = FALSE
    /\ \E r \in LibraryRequests : requests = <<r>>

\* one document with method keys in several letter cases, queried with the
\* filter in several letter cases
CaseInit ==
    /\ \E d \in CaseDocs : bucket = <<File(1, d, TRUE)>>
    /\ listable = TRUE
    /\ requests = CaseRequests

\* a bucket with objects of several kinds and one message of any kind
ProtocolInit ==
    /\ bucket = ProtocolBucket
    /\ listable \in BOOLEAN
    /\ \E m \in ProtocolMessages : requests = <<m>>

\* a document with a top-level line after the path table
DocTopLevel == <<L_paths, L_users, L_get, L_summary, <<"x","-","t","y","p","e",":"," ","i","n","t","e","r","n","a","l">>, <<>>>>

\* a document indented by four spaces, and one indented by one space
DocWide ==
    <<L_paths, <<" "," "," "," ","/","u","s","e","r","s",":">>, <<" "," "," "," "," "," "," "," ","g","e","t",":">>, <<" "," "," "," "," "," "," "," "," "," "," "," ","s","u","m","m","a","r","y",":"," ","L","i","s","t"," ","u","s","e","r","s">>, <<>>>>
DocNarrow == <<L_paths, <<" ","/","u","s","e","r","s",":">>, <<" "," ","g","e","t",":">>, <<" "," "," ","s","u","m","m","a","r","y",":"," ","L","i","s","t"," ","u","s","e","r","s">>, <<>>>>

\* a document with a blank line in a responses section, long enough for the
\* lookahead
DocBlank ==
    <<L_paths, L_users, L_get, L_responses, L_200, <<>>, L_descOK>>
        \o [k \in 1..(LookaheadGuard - 3) |-> L_filler] \o <<<<>>>>

\* a document with a webhook table after the path table
DocWebhooks ==
    <<L_paths, L_users, L_get, L_summary, <<"w","e","b","h","o","o","k","s",":">>, <<" "," ","n","e","w","U","s","e","r",":">>, L_post,
      <<" "," "," "," "," "," ","s","u","m","m","a","r","y",":"," ","U","s","e","r"," ","c","r","e","a","t","e","d">>, <<>>>>

Q_hook == <<"n","e","w","U","s","e","r">>

LayoutDocs == {DocTopLevel, DocWide, DocNarrow, DocBlank, DocWebhooks}

\* one document of an unusual layout, queried for a path without a method
\* filter
LayoutInit ==
    /\ \E d \in LayoutDocs : bucket = <<File(1, d, TRUE)>>
    /\ listable = TRUE
    /\ \E q \in {Q_users, Q_hook} : requests = <<Request(TRUE, q, FALSE, NoString)>>

Init ==
    /\ PMIdle
    /\ GeneratedInit \/ LibraryInit \/ CaseInit \/ ProtocolInit \/ LayoutInit
    /\ LoopIdle
    /\ received = <<>>
    /\ responses = <<>>
    /\ s3Calls = <<>>
    /\ pc = "idle"
    /\ scanLog = <<>>
    /\ HandlerIdle
    /\ ScanIdle

PMInit ==
    /\ pmEndpoint \in PathStrings
    /\ pmSearch \in PathStrings
    /\ pmCalled = FALSE
    /\ pmResult = FALSE
    /\ FMIdle
    /\ ServerIdle

\* the call s.pathMatches(currentPath, searchPath)
PMCall ==
    /\ ~pmCalled
    /\ pmCalled' = TRUE
    /\ pmResult' = pathMatches(pmEndpoint, pmSearch)
    /\ UNCHANGED <<pmEndpoint, pmSearch, fmVars, envVars, ioVars, requests, outVars, pc,
                   handlerVars, scanVars, scanLog>>

SpecPM == PMInit /\ [][PMCall]_vars

L_parameters == <<" "," "," "," "," "," ","p","a","r","a","m","e","t","e","r","s",":">>
L_requestBody == <<" "," "," "," "," "," ","r","e","q","u","e","s","t","B","o","d","y",":">>
L_type == <<" "," "," "," "," "," "," "," "," "," ","t","y","p","e",":"," ","s","t","r","i","n","g">>
L_blocked == <<" "," "," "," "," "," "," "," "," "," "," "," ","b","l","o","c","k","e","d","_","r","e","a","s","o","n",":">>
L_descBlocked == <<" "," "," "," "," "," "," "," "," "," ","d","e","s","c","r","i","p","t","i","o","n",":"," ","T","h","e"," ","B","l","o","c","k","e","d","_","R","e","a","s","o","n"," ","f","i","e","l","d">>

\* lines that the scan collects: lines with an important field, and a line
\* without one, which the lookahead brings
DetailLines ==
    {L_summary, L_descOK, L_parameters, L_requestBody, L_responses, L_200, L_type,
     L_blocked, L_descBlocked}

\* the buffers the scan can hand over: a line without an important field
\* comes after a responses line
Buffers ==
    {d \in SeqsUpTo(DetailLines, MaxDetails) :
        \A k \in DOMAIN d :
            \/ IsImportant(TrimSpace(d[k]))
            \/ \E j \in 1..(k - 1) : Contains(TrimSpace(d[j]), <<"r","e","s","p","o","n","s","e","s",":">>)}

FMInit ==
    /\ fmDetails \in Buffers
    /\ fmCalled = FALSE
    /\ fmResult = <<>>
    /\ pmEndpoint = <<>>
    /\ pmSearch = <<>>
    /\ pmCalled = TRUE
    /\ pmResult = TRUE
    /\ ServerIdle

\* the call s.formatEndpointDetails(currentPath, currentMethod, endpointDetails)
FMCall ==
    /\ ~fmCalled
    /\ fmCalled' = TRUE
    /\ fmResult' = formatEndpointDetails(Q_users, <<"G","E","T">>, fmDetails)
    /\ UNCHANGED <<fmDetails, pmEndpoint, pmSearch, pmCalled, pmResult, envVars, ioVars,
                   requests, outVars, pc, handlerVars, scanVars, scanLog>>

SpecFM == FMInit /\ [][FMCall]_vars

(***************************************************************************)
(* handleGetEndpointDetails.                                               *)
(***************************************************************************)
Digits == <<"0","1","2","3","4","5","6","7","8","9">>

\* fmt.Sprintf("%d", n) for n >= 0
RECURSIVE Itoa(_)
Itoa(n) == IF n < 10 THEN <<Digits[n + 1]>>
           ELSE Itoa(n \div 10) \o <<Digits[(n % 10) + 1]>>

\* the report never names the method
WithMethod_never(m) == <<>>

WithMethod(m) == IF m # <<>> THEN <<" ","w","i","t","h"," ","m","e","t","h","o","d"," ">> \o m ELSE <<>>

ErrParse == 0 - 32700
ErrMethodNotFound == 0 - 32601
ErrInvalidParams == 0 - 32602

ErrInternal_asInvalidParams == 0 - 32602

ErrInternal == 0 - 32603

ParseErrorMsg == <<"P","a","r","s","e"," ","e","r","r","o","r">>
MethodNotFoundMsg == <<"M","e","t","h","o","d"," ","n","o","t"," ","f","o","u","n","d",":"," ">>
InvalidParamsMsg == <<"I","n","v","a","l","i","d"," ","p","a","r","a","m","s">>
InvalidUriMsg == <<"I","n","v","a","l","i","d"," ","S","3"," ","U","R","I">>
ReadFailedMsg == <<"F","a","i","l","e","d"," ","t","o"," ","r","e","a","d"," ","f","i","l","e",":"," ">>
UnknownToolMsg == <<"U","n","k","n","o","w","n"," ","t","o","o","l",":"," ">>
PatternRequiredMsg == <<"P","a","t","t","e","r","n"," ","p","a","r","a","m","e","t","e","r"," ","i","s"," ","r","e","q","u","i","r","e","d"," ","a","n","d"," ","m","u","s","t"," ","b","e"," ","a"," ","s","t","r","i","n","g">>
SearchFailedMsg == <<"S","e","a","r","c","h"," ","f","a","i","l","e","d",":"," ">>
ListFilesFailedMsg == <<"F","a","i","l","e","d"," ","t","o"," ","l","i","s","t"," ","f","i","l","e","s",":"," ">>
PathRequiredMsg == <<"P","a","t","h"," ","p","a","r","a","m","e","t","e","r"," ","i","s"," ","r","e","q","u","i","r","e","d"," ","a","n","d"," ","m","u","s","t"," ","b","e"," ","a"," ","s","t","r","i","n","g">>
ListFailedMsg == <<"F","a","i","l","e","d"," ","t","o"," ","l","i","s","t"," ","Y","A","M","L"," ","f","i","l","e","s",":"," ">>

\* the id of a message is its position in the input; the id of the answer to
\* a line that is not a request is null (0)
ErrorResponse(id, code, message) ==
    [id |-> id, kind |-> "error", code |-> code, text |-> <<message>>, items |-> <<>>]

\* a result: a ToolResult has a text, the other results have items
ResultResponse(id, text) ==
    [id |-> id, kind |-> "result", code |-> 0, text |-> text, items |-> <<>>]

ItemsResponse(id, items) ==
    [id |-> id, kind |-> "result", code |-> 0, text |-> <<>>, items |-> items]

\* "Found in <name>:" line, the renderings of the file, and an empty line
FoundBlock(fileName, endpointInfo) ==
    <<<<E_page>> \o <<" ","*","*","F","o","u","n","d"," ","i","n"," ">> \o fileName \o <<"*","*",":">>>> \o endpointInfo \o <<<<>>>>

RECURSIVE Flatten(_)
Flatten(blocks) ==
    IF blocks = <<>> THEN <<>>
    ELSE Head(blocks) \o <<<<>>>> \o Flatten(Tail(blocks))

NoneFoundLine(p, m) ==
    <<E_cross>> \o <<" ","N","o"," ","e","n","d","p","o","i","n","t","s"," ","f","o","u","n","d"," ","m","a","t","c","h","i","n","g"," ","p","a","t","h"," ","'">> \o p \o <<"'">> \o WithMethod(m)

TipLine == <<"T","i","p",":"," ","T","r","y"," ","s","e","a","r","c","h","i","n","g"," ","w","i","t","h"," ","a"," ","p","a","r","t","i","a","l"," ","p","a","t","h"," ","l","i","k","e"," ","'","/","c","a","r","d","s","'"," ","o","r"," ","'","/","u","s","e","r","s","'">>

FoundLine(n, p, m) ==
    <<E_target>> \o <<" ","F","o","u","n","d"," ">> \o Itoa(n) \o <<" ","e","n","d","p","o","i","n","t","(","s",")"," ","m","a","t","c","h","i","n","g"," ","p","a","t","h"," ","'">> \o p
        \o <<"'">> \o WithMethod(m) \o <<":">>

\* the text of the report; the last line of the "none found" report is the
\* only line of a report that is not terminated by a newline
Report(found, p, m) ==
    IF Len(found) = 0
    THEN <<NoneFoundLine(p, m), <<>>, TipLine>>
    ELSE <<FoundLine(Len(found), p, m), <<>>>> \o Flatten(found)

\* the line to be read
Msg == Head(requests)

\* a loop that ends when a response reports an error
HasLine_untilError ==
    /\ returned = "none"
    /\ requests # <<>>
    /\ terminated \/ Len(requests) > 1
    /\ \A k \in DOMAIN responses : responses[k].kind # "error"

\* there is a whole line to read: ReadString('\n') returns the text after
\* the last newline together with io.EOF
HasLine ==
    /\ returned = "none"
    /\ requests # <<>>
    /\ terminated \/ Len(requests) > 1

RpcMethods == {"initialize", "initialized", "resources/list", "resources/read",
               "tools/list", "tools/call"}

\* a server that serves a request only after an initialize request
Dispatch_afterInitialize(m) ==
    IF m.rpc \in RpcMethods
       /\ (m.rpc = "initialize" \/ \E k \in DOMAIN received : received[k].rpc = "initialize")
    THEN m.rpc
    ELSE "default"

\* "switch request.Method": the case that handleRequest takes
Dispatch(m) == IF m.rpc \in RpcMethods THEN m.rpc ELSE "default"

\* the server is about to read a request with the given method
Reads(rpcMethod) ==
    /\ pc = "idle"
    /\ HasLine
    /\ Msg.line = "request"
    /\ Dispatch(Msg) = rpcMethod

\* handleCallTool dispatches to the tool with the given name
CallsTool(name) == Reads("tools/call") /\ Msg.paramsOk /\ Msg.tool = name

\* the line leaves the input
Read ==
    /\ requests' = Tail(requests)
    /\ received' = Append(received, Msg)

\* the position in the input of the line that is being handled
Handling == IF pc = "idle" THEN Len(received) + 1 ELSE Len(received)

\* request.ID of the request that is being handled
Id == Float64(IF pc = "idle" THEN Msg.id ELSE received[Len(received)].id)

\* a message is written; the model notes which line it answers
Send(response) == responses' = Append(responses, [answers |-> Handling] @@ response)

\* processMessage returns and the loop of Start comes to its select again:
\* Start returns ctx.Err() if the context is done, and reads on otherwise
Continue == returned' = IF cancelled THEN "ctx" ELSE returned

\* the response is written and processMessage returns
Reply(response) == Send(response) /\ Continue

\* args["path"] is missing or not a string
HandleBadPath ==
    /\ CallsTool("get_endpoint_details")
    /\ ~Msg.hasPath
    /\ Read
    /\ Reply(ErrorResponse(Id, ErrInvalidParams, PathRequiredMsg))
    /\ UNCHANGED <<pmVars, envVars, s3Calls, pc, handlerVars, scanVars, scanLog>>

\* ListYAMLFiles returns an error
HandleListError ==
    /\ CallsTool("get_endpoint_details")
    /\ Msg.hasPath
    /\ ~listable
    /\ Read
    /\ s3Calls' = Append(s3Calls, S3Call("ListObjectsV2", NoString, Handling))
    /\ Reply(ErrorResponse(Id, ErrInternal, ListFailedMsg))
    /\ UNCHANGED <<pmVars, envVars, pc, handlerVars, scanVars, scanLog>>

\* the arguments are read, the files are listed and the file loop starts
HandleGetEndpointDetails ==
    /\ CallsTool("get_endpoint_details")
    /\ Msg.hasPath
    /\ listable
    /\ Read
    /\ s3Calls' = Append(s3Calls, S3Call("ListObjectsV2", NoString, Handling))
    /\ path' = Msg.path
    /\ method' = IF Msg.hasMethod THEN ToUpper(Msg.method) ELSE <<>>
    /\ files' = ListYAMLFiles(bucket, NoString)
    /\ fileIdx' = 0
    /\ foundEndpoints' = <<>>
    /\ pc' = "loop"
    /\ UNCHANGED <<pmVars, envVars, outVars, scanVars, scanLog>>

\* the file loop ends at the first file that cannot be read
NextAfterFailure_break == Len(files)

\* "continue": the loop goes on with the next file
NextAfterFailure == fileIdx + 1

\* the key of the file the loop is at
FileKey == bucket[files[fileIdx + 1]].key

\* GetYAMLFile fails: the file is logged and skipped
GetFileFails ==
    /\ pc = "loop"
    /\ fileIdx < Len(files)
    /\ GetYAMLFile(bucket, FileKey) # "ok"
    /\ s3Calls' = s3Calls \o GetYAMLFileCalls(bucket, FileKey, Len(received))
    /\ fileIdx' = NextAfterFailure
    /\ UNCHANGED <<pmVars, envVars, requests, received, outVars, pc, path, method,
                   files, foundEndpoints, scanVars, scanLog>>

\* GetYAMLFile succeeds and searchEndpointInContent is entered: the content
\* is split into lines and the locals take their zero values
CallSearch ==
    /\ pc = "loop"
    /\ fileIdx < Len(files)
    /\ GetYAMLFile(bucket, FileKey) = "ok"
    /\ s3Calls' = s3Calls \o GetYAMLFileCalls(bucket, FileKey, Len(received))
    /\ lines' = bucket[files[fileIdx + 1]].lines
    /\ i' = 0
    /\ result' = InitialResult
    /\ currentPath' = <<>>
    /\ currentMethod' = <<>>
    /\ inPaths' = InitialInPaths
    /\ inEndpoint' = FALSE
    /\ pathMatchesFlag' = FALSE
    /\ methodMatches' = FALSE
    /\ indentLevel' = 0
    /\ endpointDetails' = <<>>
    /\ detailIdx' = <<>>
    /\ opened' = <<>>
    /\ finalized' = <<>>
    /\ pc' = "scan"
    /\ UNCHANGED <<pmVars, envVars, requests, received, outVars, handlerVars, scanLog>>

\* the file loop is over: the report is built and sent
SendReport ==
    /\ pc = "loop"
    /\ fileIdx = Len(files)
    /\ Reply(ResultResponse(Id, Report(foundEndpoints, path, method)))
    /\ pc' = "idle"
    /\ path' = <<>>
    /\ method' = <<>>
    /\ files' = <<>>
    /\ fileIdx' = 0
    /\ foundEndpoints' = <<>>
    /\ UNCHANGED <<pmVars, envVars, ioVars, requests, scanVars, scanLog>>

(***************************************************************************)
(* processMessage, handleRequest and the other handlers.                   *)
(***************************************************************************)
\* json.Unmarshal fails
HandleParseError ==
    /\ pc = "idle"
    /\ HasLine
    /\ Msg.line = "garbage"
    /\ Read
    /\ Reply(ErrorResponse(NullId, ErrParse, ParseErrorMsg))
    /\ UNCHANGED <<pmVars, envVars, s3Calls, pc, handlerVars, scanVars, scanLog>>

\* the default case of handleRequest
HandleMethodNotFound ==
    /\ pc = "idle"
    /\ HasLine
    /\ Msg.line = "request"
    /\ Dispatch(Msg) = "default"
    /\ Read
    /\ Reply(ErrorResponse(Id, ErrMethodNotFound, MethodNotFoundMsg))
    /\ UNCHANGED <<pmVars, envVars, s3Calls, pc, handlerVars, scanVars, scanLog>>

ServerInfo == <<[name |-> <<"s","3","-","y","a","m","l","-","m","c","p","-","s","e","r","v","e","r">>, version |-> <<"1",".","0",".","0">>,
                 protocolVersion |-> <<"2","0","2","4","-","1","1","-","0","5">>]>>

HandleInitialize ==
    /\ Reads("initialize")
    /\ Read
    /\ Reply(ItemsResponse(Id, ServerInfo))
    /\ UNCHANGED <<pmVars, envVars, s3Calls, pc, handlerVars, scanVars, scanLog>>

\* the notification is logged and not answered
HandleInitialized ==
    /\ Reads("initialized")
    /\ Read
    /\ Continue
    /\ UNCHANGED <<pmVars, envVars, s3Calls, responses, pc, handlerVars, scanVars, scanLog>>

\* a resource exposed under the name of the file instead of its key
Resource_byName(b, k) ==
    [uri |-> S3Uri(BucketName, extractFileName(b[k].key)),
     name |-> extractFileName(b[k].key)]

\* the resource a listed file is exposed as
Resource(b, k) ==
    [uri |-> S3Uri(BucketName, b[k].key), name |-> extractFileName(b[k].key)]

HandleListResources ==
    /\ Reads("resources/list")
    /\ Read
    /\ s3Calls' = Append(s3Calls, S3Call("ListObjectsV2", NoString, Handling))
    /\ Reply(IF ~listable
            THEN ErrorResponse(Id, ErrInternal, ListFailedMsg)
            ELSE LET files_ == ListYAMLFiles(bucket, NoString)
                 IN  ItemsResponse(Id, [k \in 1..Len(files_) |-> Resource(bucket, files_[k])]))
    /\ UNCHANGED <<pmVars, envVars, pc, handlerVars, scanVars, scanLog>>

\* the content of a resource, as it is returned
ResourceContent(uri, b, key) ==
    <<[uri |-> uri, text |-> b[ObjectAt(b, key)].lines]>>

HandleReadResource ==
    /\ Reads("resources/read")
    /\ Read
    /\ LET key == extractS3Key(Msg.uri)
       IN  IF ~Msg.paramsOk
           THEN /\ Reply(ErrorResponse(Id, ErrInvalidParams, InvalidParamsMsg))
                /\ UNCHANGED s3Calls
           ELSE IF key = <<>>
           THEN /\ Reply(ErrorResponse(Id, ErrInvalidParams, InvalidUriMsg))
                /\ UNCHANGED s3Calls
           ELSE /\ s3Calls' = s3Calls \o GetYAMLFileCalls(bucket, key, Handling)
                /\ Reply(IF GetYAMLFile(bucket, key) # "ok"
                        THEN ErrorResponse(Id, ErrInternal, ReadFailedMsg)
                        ELSE ItemsResponse(Id, ResourceContent(Msg.uri, bucket, key)))
    /\ UNCHANGED <<pmVars, envVars, pc, handlerVars, scanVars, scanLog>>

ToolNames == <<"search_yaml_files", "list_yaml_files", "get_endpoint_details">>

HandleListTools ==
    /\ Reads("tools/list")
    /\ Read
    /\ Reply(ItemsResponse(Id, [k \in 1..Len(ToolNames) |-> [name |-> ToolNames[k]]]))
    /\ UNCHANGED <<pmVars, envVars, s3Calls, pc, handlerVars, scanVars, scanLog>>

\* handleCallTool: the params cannot be read, or name no tool
HandleCallTool ==
    /\ Reads("tools/call")
    /\ ~Msg.paramsOk \/ Msg.tool \notin Range(ToolNames)
    /\ Read
    /\ Reply(IF ~Msg.paramsOk
            THEN ErrorResponse(Id, ErrInvalidParams, InvalidParamsMsg)
            ELSE ErrorResponse(Id, ErrMethodNotFound, UnknownToolMsg))
    /\ UNCHANGED <<pmVars, envVars, s3Calls, pc, handlerVars, scanVars, scanLog>>

\* the lines that describe one file in the text of a tool result
FileEntry(b, k) ==
    <<<<E_page>> \o <<" ","*","*">> \o extractFileName(b[k].key) \o <<"*","*">>,
      <<" "," "," ","-"," ","S","3"," ","K","e","y",":"," ">> \o b[k].key,
      <<" "," "," ","-"," ","S","i","z","e",":"," ">> \o Itoa(b[k].size) \o <<" ","b","y","t","e","s">>,
      <<" "," "," ","-"," ","M","o","d","i","f","i","e","d",":"," ">> \o b[k].modified,
      <<" "," "," ","-"," ","U","R","I",":"," ">> \o S3Uri(BucketName, b[k].key),
      <<>>>>

RECURSIVE FileEntries(_, _)
FileEntries(b, fs) ==
    IF fs = <<>> THEN <<>> ELSE FileEntry(b, Head(fs)) \o FileEntries(b, Tail(fs))

FilesText(heading, b, fs) == <<heading, <<>>>> \o FileEntries(b, fs)

FilesFound(n) == <<"F","o","u","n","d"," ">> \o Itoa(n) \o <<" ","Y","A","M","L"," ","f","i","l","e","s">>

HandleSearchYAMLFiles ==
    /\ CallsTool("search_yaml_files")
    /\ Read
    /\ IF ~Msg.hasPattern
       THEN /\ Reply(ErrorResponse(Id, ErrInvalidParams, PatternRequiredMsg))
            /\ UNCHANGED s3Calls
       ELSE /\ s3Calls' = Append(s3Calls, S3Call("ListObjectsV2", NoString, Handling))
            /\ Reply(IF ~listable
                    THEN ErrorResponse(Id, ErrInternal, SearchFailedMsg)
                    ELSE LET fs == SearchYAMLFiles(bucket, Msg.pattern)
                         IN  ResultResponse(Id,
                                FilesText(FilesFound(Len(fs)) \o <<" ","m","a","t","c","h","i","n","g"," ","p","a","t","t","e","r","n"," ","'">>
                                             \o Msg.pattern \o <<"'",":">>, bucket, fs)))
    /\ UNCHANGED <<pmVars, envVars, pc, handlerVars, scanVars, scanLog>>

HandleListYAMLFilesTool ==
    /\ CallsTool("list_yaml_files")
    /\ Read
    /\ LET prefix == IF Msg.hasPrefix THEN Msg.prefix ELSE NoString
       IN  /\ s3Calls' = Append(s3Calls, S3Call("ListObjectsV2", prefix, Handling))
           /\ Reply(IF ~listable
                   THEN ErrorResponse(Id, ErrInternal, ListFilesFailedMsg)
                   ELSE LET fs == ListYAMLFiles(bucket, prefix)
                        IN  ResultResponse(Id,
                               FilesText(IF prefix # <<>>
                                         THEN FilesFound(Len(fs)) \o <<" ","w","i","t","h"," ","p","r","e","f","i","x"," ","'">>
                                                \o prefix \o <<"'",":">>
                                         ELSE FilesFound(Len(fs)) \o <<" ","i","n"," ","b","u","c","k","e","t",":">>,
                                         bucket, fs)))
    /\ UNCHANGED <<pmVars, envVars, pc, handlerVars, scanVars, scanLog>>

(***************************************************************************)
(* searchEndpointInContent: one action per branch of the loop body.        *)
(***************************************************************************)
Line == lines[i + 1]

InLoop == pc = "scan" /\ i < Len(lines)

\* the save condition without the method test
MustSave_anyMethod == inEndpoint /\ pathMatchesFlag

\* "if inEndpoint && pathMatches && (method == "" || methodMatches)"
MustSave == inEndpoint /\ pathMatchesFlag /\ (method = <<>> \/ methodMatches)

\* the rendering appended to result when the open endpoint is saved
Saved == IF MustSave
         THEN formatEndpointDetails(currentPath, currentMethod, endpointDetails)
         ELSE <<>>

\* the record of that call: arguments, where the details came from and where
\* the method was opened, and the rendering returned
Match ==
    [method |-> currentMethod, path |-> currentPath, details |-> endpointDetails,
     idx |-> detailIdx, at |-> opened[Len(opened)].at, rendering |-> Saved]

Calls == IF MustSave THEN Append(finalized, Match) ELSE finalized

\* the rendering written ahead of the text so far
Emit_first(out, rendering) == rendering \o out

\* "result.WriteString(s.formatEndpointDetails(...))"
Emit(out, rendering) == out \o rendering

\* trimmed == "paths:"
ScanRootMarker ==
    /\ InLoop
    /\ TrimSpace(Line) = RootMarker
    /\ inPaths' = TRUE
    /\ i' = i + 1
    /\ UNCHANGED <<pmVars, envVars, ioVars, requests, outVars, pc, handlerVars, lines, result,
                   currentPath, currentMethod, inEndpoint, pathMatchesFlag,
                   methodMatches, indentLevel, endpointDetails, detailIdx, opened,
                   finalized, scanLog>>

\* !inPaths
ScanOutsidePaths ==
    /\ InLoop
    /\ TrimSpace(Line) # RootMarker
    /\ ~inPaths
    /\ i' = i + 1
    /\ UNCHANGED <<pmVars, envVars, ioVars, requests, outVars, pc, handlerVars, lines, result,
                   currentPath, currentMethod, inPaths, inEndpoint, pathMatchesFlag,
                   methodMatches, indentLevel, endpointDetails, detailIdx, opened,
                   finalized, scanLog>>

\* a new path: the previous endpoint is saved if it matched, the state is reset
ScanNewPath ==
    /\ InLoop
    /\ TrimSpace(Line) # RootMarker
    /\ inPaths
    /\ IsPathKey(Line)
    /\ result' = Emit(result, Saved)
    /\ finalized' = Calls
    /\ currentPath' = TrimSuffix(TrimSpace(Line), <<":">>)
    /\ pathMatchesFlag' = pathMatches(currentPath', path)
    /\ inEndpoint' = FALSE
    /\ methodMatches' = FALSE
    /\ endpointDetails' = <<>>
    /\ detailIdx' = <<>>
    /\ indentLevel' = Indent(Line)
    /\ i' = i + 1
    /\ UNCHANGED <<pmVars, envVars, ioVars, requests, outVars, pc, handlerVars, lines,
                   currentMethod, inPaths, opened, scanLog>>

\* the buffer carried over from the method before
ResetDetails_kept(buffer) == buffer

\* "endpointDetails = []string{}" at a method key
ResetDetails(buffer) == <<>>

\* a method of the current path
ScanNewMethod ==
    /\ InLoop
    /\ TrimSpace(Line) # RootMarker
    /\ inPaths
    /\ ~IsPathKey(Line)
    /\ IsMethodKey(Line, pathMatchesFlag, indentLevel)
    /\ currentMethod' = MethodOfKey(TrimSpace(Line))
    /\ methodMatches' = (method = <<>> \/ method = currentMethod')
    /\ inEndpoint' = TRUE
    /\ endpointDetails' = ResetDetails(endpointDetails)
    /\ detailIdx' = ResetDetails(detailIdx)
    /\ opened' = Append(opened, [method |-> currentMethod', path |-> currentPath,
                                  at |-> i, matches |-> methodMatches'])
    /\ i' = i + 1
    /\ UNCHANGED <<pmVars, envVars, ioVars, requests, outVars, pc, handlerVars, lines, result,
                   currentPath, inPaths, pathMatchesFlag, indentLevel, finalized,
                   scanLog>>

\* a line of a matching endpoint: kept if it has an important field, and a
\* responses line also brings the lines that follow it
ScanCollect ==
    /\ InLoop
    /\ TrimSpace(Line) # RootMarker
    /\ inPaths
    /\ ~IsPathKey(Line)
    /\ ~IsMethodKey(Line, pathMatchesFlag, indentLevel)
    /\ inEndpoint /\ pathMatchesFlag /\ methodMatches
    /\ endpointDetails' = endpointDetails \o LinesAt(lines, CollectedAt(lines, i))
    /\ detailIdx' = detailIdx \o CollectedAt(lines, i)
    /\ IF CollectPanics(lines, i)
       THEN pc' = "panic" /\ i' = i
       ELSE pc' = pc /\ i' = i + 1
    /\ UNCHANGED <<pmVars, envVars, ioVars, requests, outVars, handlerVars, lines, result,
                   currentPath, currentMethod, inPaths, inEndpoint, pathMatchesFlag,
                   methodMatches, indentLevel, opened, finalized, scanLog>>

\* any other line
ScanIgnore ==
    /\ InLoop
    /\ TrimSpace(Line) # RootMarker
    /\ inPaths
    /\ ~IsPathKey(Line)
    /\ ~IsMethodKey(Line, pathMatchesFlag, indentLevel)
    /\ ~(inEndpoint /\ pathMatchesFlag /\ methodMatches)
    /\ i' = i + 1
    /\ UNCHANGED <<pmVars, envVars, ioVars, requests, outVars, pc, handlerVars, lines, result,
                   currentPath, currentMethod, inPaths, inEndpoint, pathMatchesFlag,
                   methodMatches, indentLevel, endpointDetails, detailIdx, opened,
                   finalized, scanLog>>

\* the end of the lines: the last endpoint is saved if it matched, the result
\* is returned and the caller keeps it if it is not empty
ScanReturn ==
    /\ pc = "scan"
    /\ i = Len(lines)
    /\ result' = Emit(result, Saved)
    /\ finalized' = Calls
    /\ foundEndpoints' =
          IF result' # <<>>
          THEN Append(foundEndpoints, FoundBlock(extractFileName(bucket[files[fileIdx + 1]].key), result'))
          ELSE foundEndpoints
    /\ scanLog' = Append(scanLog,
          [request |-> Len(received), file |-> files[fileIdx + 1], searchPath |-> path,
           method |-> method,
           result |-> result', opened |-> opened, finalized |-> finalized'])
    /\ fileIdx' = fileIdx + 1
    /\ pc' = "loop"
    /\ UNCHANGED <<pmVars, envVars, ioVars, requests, outVars, path, method, files,
                   lines, i, currentPath, currentMethod, inPaths, inEndpoint, pathMatchesFlag,
                   methodMatches, indentLevel, endpointDetails, detailIdx, opened>>

Next ==
    \/ HandleParseError
    \/ HandleMethodNotFound
    \/ HandleInitialize
    \/ HandleInitialized
    \/ HandleListResources
    \/ HandleReadResource
    \/ HandleListTools
    \/ HandleCallTool
    \/ HandleSearchYAMLFiles
    \/ HandleListYAMLFilesTool
    \/ HandleBadPath
    \/ HandleListError
    \/ HandleGetEndpointDetails
    \/ GetFileFails
    \/ CallSearch
    \/ SendReport
    \/ ScanRootMarker
    \/ ScanOutsidePaths
    \/ ScanNewPath
    \/ ScanNewMethod
    \/ ScanCollect
    \/ ScanIgnore
    \/ ScanReturn

Spec == Init /\ [][Next]_vars

(***************************************************************************)
(* The message loop of Start over an input of several lines, with the end  *)
(* of the input and the cancellation of the context.                       *)
(***************************************************************************)
MaxMessages == 2

\* a line that is empty after strings.TrimSpace
BlankLine == [Rpc("") EXCEPT !.line = "blank"]

LoopDoc == <<<<"o","p","e","n","a","p","i",":"," ","3",".","0",".","0">>, L_paths, L_users, L_get, L_summary, <<>>>>

LoopBucket ==
    <<Object(K_notes, <<L_paths, <<>>>>, TRUE),
      Object(K_api, LoopDoc, TRUE),
      Object(K_users, <<L_paths, <<>>>>, TRUE)>>

LoopMessages ==
    {BlankLine,
     Garbage,
     Rpc("initialize"),
     Rpc("initialized"),
     Rpc("ping"),
     Rpc("resources/list"),
     ReadResource(S3Uri(BucketName, K_api)),
     Rpc("tools/list"),
     ToolCall("nope"),
     SearchCall(TRUE, <<"a","p","i">>),
     ListCall(FALSE, NoString),
     Request(FALSE, NoString, FALSE, NoString),
     Request(TRUE, Q_users, FALSE, NoString)}

\* the lines that fail, the lines that are not answered, and two requests
\* that are served
LoopLines ==
    {BlankLine,
     Garbage,
     Rpc("initialize"),
     Rpc("initialized"),
     Rpc("ping"),
     Rpc("tools/list"),
     Request(FALSE, NoString, FALSE, NoString)}

\* the inputs: the sequences of up to MaxMessages of these lines, the pairs
\* of messages, and a message given twice with another message between
LoopInputs ==
    SeqsUpTo(LoopLines, MaxMessages)
        \cup {<<m, x>> : m \in LoopMessages, x \in LoopMessages}
        \cup {<<m, x, m>> : m \in LoopMessages, x \in LoopMessages}

\* the client numbers its requests by line, from 0 or from 2^53; a
\* notification has no id
Numbered(input, hi) ==
    [k \in DOMAIN input |->
        [input[k] EXCEPT !.id = IF input[k].rpc = "initialized" THEN NullId
                                ELSE JsonInt(hi, k)]]

LoopInit ==
    /\ PMIdle
    /\ bucket = LoopBucket
    /\ listable = TRUE
    /\ cancelled = FALSE
    /\ returned = "none"
    /\ \E input \in LoopInputs :
          \/ requests = Numbered(input, 0) /\ terminated \in BOOLEAN
          \/ requests = Numbered(input, 1) /\ terminated = TRUE
    /\ requests = <<>> => terminated
    /\ received = <<>>
    /\ responses = <<>>
    /\ s3Calls = <<>>
    /\ pc = "idle"
    /\ scanLog = <<>>
    /\ HandlerIdle
    /\ ScanIdle

\* "if line == "" { return nil }"
HandleBlankLine ==
    /\ pc = "idle"
    /\ HasLine
    /\ Msg.line = "blank"
    /\ Read
    /\ Continue
    /\ UNCHANGED <<pmVars, envVars, s3Calls, responses, pc, handlerVars, scanVars, scanLog>>

\* ReadString returns io.EOF, with the text after the last newline if there
\* is any, and Start returns nil
EndOfInput ==
    /\ pc = "idle"
    /\ returned = "none"
    /\ ~HasLine
    /\ returned' = "nil"
    /\ UNCHANGED <<pmVars, envVars, ioVars, requests, responses, pc, handlerVars, scanVars,
                   scanLog>>

\* a call made to S3 with a context that is done fails
Refused(b) == [k \in DOMAIN b |-> [b[k] EXCEPT !.readable = FALSE]]

\* The context is cancelled.  While a message is handled the loop comes to
\* its select afterwards.  Between two messages Start is either at the
\* select, and returns ctx.Err(), or past it in ReadString, which the
\* context does not interrupt.
Cancel ==
    /\ returned = "none"
    /\ ~cancelled
    /\ cancelled' = TRUE
    /\ bucket' = Refused(bucket)
    /\ listable' = FALSE
    /\ returned' \in IF pc = "idle" THEN {"none", "ctx"} ELSE {"none"}
    /\ UNCHANGED <<pmVars, terminated, ioVars, requests, responses, pc, handlerVars, scanVars,
                   scanLog>>

LoopNext ==
    \/ Next
    \/ HandleBlankLine
    \/ EndOfInput
    \/ Cancel

SpecLoop == LoopInit /\ [][LoopNext]_vars

(***************************************************************************)
(* Vocabulary of the properties.                                           *)
(***************************************************************************)
\* the scans completed so far, and the content each of them read; a scan is
\* added when it returns to the file loop, so the properties of the completed
\* scans are stated at the file loop
Scans == IF pc = "loop" THEN Range(scanLog) ELSE {}
DocOf(e) == bucket[e.file].lines

\* the calls of formatEndpointDetails made by the completed scans
CompletedCalls == UNION {Range(e.finalized) : e \in Scans}

\* the number of endpoint renderings (header lines) in a text
NumRenderings(text) == Cardinality({k \in DOMAIN text : HasPrefix(text[k], <<E_mag>>)})

Headings == {H_summary, H_description, H_parameters, H_requestBody, H_responses}

\* line occurs in text under the given section heading
InSection(text, heading, line) ==
    \E a \in DOMAIN text : \E b \in DOMAIN text :
        /\ a < b
        /\ text[a] = heading
        /\ text[b] = line
        /\ \A c \in (a + 1)..b : text[c] \notin Headings /\ ~HasPrefix(text[c], <<E_mag>>)

\* the detail line is shown (plain or flagged) in the Responses section
InResponses(rendering, detail) ==
    \/ InSection(rendering, H_responses, PlainLine(detail))
    \/ InSection(rendering, H_responses, FlaggedLine(detail))

HasMarker(line, marker) == Contains(TrimSpace(line), marker)

\* the messages handled so far, by id, and the responses sent for them; a
\* message is handled when the server is back at reading the input, so the
\* properties of the handled messages are stated there
Handled == IF pc = "idle" THEN DOMAIN received ELSE {}
ResponsesTo(id) == {k \in DOMAIN responses : responses[k].answers = id}

\* the message is a call of get_endpoint_details that handleCallTool passes on
IsEndpointCall(m) ==
    m.line = "request" /\ m.rpc = "tools/call" /\ m.paramsOk /\ m.tool = "get_endpoint_details"

\* the scans made for the message id, in order, and the S3 calls made for it
ScansFor(id) == SelectSeq(scanLog, LAMBDA e : e.request = id)
S3CallsFor(id) == SelectSeq(s3Calls, LAMBDA c : c.request = id)

\* q occurs in p as a contiguous run of characters
OccursIn(q, p) == \E a \in 1..(Len(p) + 1) : \E b \in 0..Len(p) : SubSeq(p, a, b) = q

(***************************************************************************)
(* C1.  Every method block that satisfied the path predicate and the       *)
(* method predicate is finalized exactly once: a completed scan holds      *)
(* exactly one rendering per method block it opened with both predicates   *)
(* true.  The code drops a block that is followed by another method key    *)
(* of the same path.                                                       *)
(***************************************************************************)
C1_FinalizedExactlyOnce ==
    \A e \in Scans :
        NumRenderings(e.result) = Cardinality({k \in DOMAIN e.opened : e.opened[k].matches})

(***************************************************************************)
(* C2.  The scan of the "List users" document for path /users and no       *)
(* method has the header GET /users, the summary line under Summary, and   *)
(* the '200' line and its description line under Responses.  The code      *)
(* leaves the '200' line out.                                              *)
(***************************************************************************)
C2_ListUsersScenario ==
    \A e \in Scans :
        (DocOf(e) = DocUsers /\ e.searchPath = Q_users /\ e.method = <<>>)
        => /\ \E k \in DOMAIN e.result : e.result[k] = HeaderLine(<<"G","E","T">>, Q_users)
           /\ InSection(e.result, H_summary, PlainLine(L_summary))
           /\ InSection(e.result, H_responses, PlainLine(L_200))
           /\ InSection(e.result, H_responses, PlainLine(L_descOK))

(***************************************************************************)
(* C3 as stated.  For the candidate /cards/{card_id}/pan, pathMatches is   *)
(* true for the query /cards and false for the query /pan.                 *)
(***************************************************************************)
C3_PanDoesNotMatch ==
    (pmCalled /\ pmEndpoint = P_cards_pan)
    => /\ (pmSearch = P_cards => pmResult)
       /\ (pmSearch = P_pan => ~pmResult)

(***************************************************************************)
(* C3 as amended.  For the candidate /cards/{card_id}/pan, pathMatches is  *)
(* true for the query /cards and also for the query /pan: a query that     *)
(* occurs after the first "{" matches by the partial match.                *)
(***************************************************************************)
C3_CardsAndPanMatch ==
    (pmCalled /\ pmEndpoint = P_cards_pan /\ pmSearch \in {P_cards, P_pan}) => pmResult

C3_Witness ==
    pmCalled /\ pmEndpoint = P_cards_pan /\ pmSearch = P_pan /\ pmResult

(***************************************************************************)
(* C4 as stated.  Once a collected line with the responses marker has      *)
(* been classified, every later collected line of the block is shown       *)
(* under Responses.                                                        *)
(***************************************************************************)
C4_StickyForAll ==
    \A c \in CompletedCalls :
        \A j \in DOMAIN c.details : \A k \in DOMAIN c.details :
            (j < k /\ HasMarker(c.details[j], <<"r","e","s","p","o","n","s","e","s",":">>))
            => InResponses(c.rendering, c.details[k])

\* the line switches the formatter to the responses section: it has the
\* responses marker and none of the markers tested before it
OpensResponses(line) ==
    /\ HasMarker(line, <<"r","e","s","p","o","n","s","e","s",":">>)
    /\ ~HasMarker(line, <<"s","u","m","m","a","r","y",":">>)
    /\ ~HasMarker(line, <<"d","e","s","c","r","i","p","t","i","o","n",":">>)
    /\ ~HasMarker(line, <<"p","a","r","a","m","e","t","e","r","s",":">>)
    /\ ~HasMarker(line, <<"r","e","q","u","e","s","t","B","o","d","y",":">>)

\* the line goes to a section of its own even in the responses section
KeepsOwnSection(line) ==
    \/ HasMarker(line, <<"s","u","m","m","a","r","y",":">>)
    \/ HasMarker(line, <<"p","a","r","a","m","e","t","e","r","s",":">>)
    \/ HasMarker(line, <<"r","e","q","u","e","s","t","B","o","d","y",":">>)

(***************************************************************************)
(* C4 as amended.  Once a collected line has been filed under Responses,   *)
(* every later collected line of the block that contains none of           *)
(* summary:, parameters: and requestBody: is shown under Responses, a      *)
(* description: line included.                                             *)
(***************************************************************************)
C4_StickyExceptOwnSection ==
    \A c \in CompletedCalls :
        \A j \in DOMAIN c.details : \A k \in DOMAIN c.details :
            (j < k /\ OpensResponses(c.details[j]) /\ ~KeepsOwnSection(c.details[k]))
            => InResponses(c.rendering, c.details[k])

C4_Witness ==
    \E c \in CompletedCalls :
        \E j \in DOMAIN c.details : \E k \in DOMAIN c.details :
            /\ j < k
            /\ OpensResponses(c.details[j])
            /\ HasMarker(c.details[k], <<"d","e","s","c","r","i","p","t","i","o","n",":">>)
            /\ InResponses(c.rendering, c.details[k])
            /\ ~InSection(c.rendering, H_description, PlainLine(c.details[k]))

\* the verbs that occur as a key "verb:" in a document, in upper case
VerbsIn(doc) ==
    {ToUpper(TrimSuffix(TrimSpace(doc[k]), <<":">>)) :
        k \in {n \in DOMAIN doc : /\ HasSuffix(TrimSpace(doc[n]), <<":">>)
                                  /\ isHTTPMethod(TrimSuffix(TrimSpace(doc[n]), <<":">>))}}

\* the completed scans of file f for path p with method filter m
ScansOf(f, p, m) == {e \in Scans : e.file = f /\ e.searchPath = p /\ e.method = m}

\* the endpoint matches (method, path, detail lines) of a set of scans
MatchSet(es) ==
    {[method |-> c.method, path |-> c.path, details |-> c.details] :
        c \in UNION {Range(e.finalized) : e \in es}}

\* file f has been scanned for path p without a filter and with every verb
\* of the file as the filter
ScannedWithAllFilters(f, p) ==
    /\ ScansOf(f, p, <<>>) # {}
    /\ \A v \in VerbsIn(bucket[f].lines) : ScansOf(f, p, v) # {}

(***************************************************************************)
(* C5.  For every document and path, the set of endpoint matches found     *)
(* with an empty method filter equals the union, over the verbs that       *)
(* occur as method keys in the document, of the sets found with that verb  *)
(* as the filter.                                                          *)
(***************************************************************************)
C5_EmptyFilterIsUnion ==
    \A f \in DOMAIN bucket : \A p \in {e.searchPath : e \in Scans} :
        ScannedWithAllFilters(f, p)
        => MatchSet(ScansOf(f, p, <<>>))
             = UNION {MatchSet(ScansOf(f, p, v)) : v \in VerbsIn(bucket[f].lines)}

C5_Witness ==
    \E f \in DOMAIN bucket : \E p \in {e.searchPath : e \in Scans} :
        /\ ScannedWithAllFilters(f, p)
        /\ Cardinality(VerbsIn(bucket[f].lines)) = 2
        /\ \E c \in MatchSet(ScansOf(f, p, <<>>)) : c.details # <<>>

\* line j of the document is a method key beside the method key at line m
SiblingMethodAt(ls, m, j) ==
    /\ j > m
    /\ Indent(ls[j + 1]) = Indent(ls[m + 1])
    /\ HasSuffix(TrimSpace(ls[j + 1]), <<":">>)
    /\ isHTTPMethod(TrimSuffix(TrimSpace(ls[j + 1]), <<":">>))

\* the responses lines among the lines idx lie deeper than the method key
ResponsesNested(ls, m, idx) ==
    \A k \in DOMAIN idx :
        HasMarker(ls[idx[k] + 1], <<"r","e","s","p","o","n","s","e","s",":">>) => Indent(ls[idx[k] + 1]) > Indent(ls[m + 1])

\* none of the lines idx is a sibling method key of the method key at line
\* m or lies after one
NoCrossing(ls, m, idx) ==
    \A k \in DOMAIN idx : ~\E j \in (m + 1)..idx[k] : SiblingMethodAt(ls, m, j)

(***************************************************************************)
(* C6.  The responses lookahead never crosses into a sibling method        *)
(* block: the buffer of an open method block whose responses sections are  *)
(* nested under it never holds a line at or after the next method key of   *)
(* the same path, and neither does a finalized block, so the result of a   *)
(* query for the first verb has no line of the second method's block.      *)
(***************************************************************************)
C6_LookaheadStaysInBlock ==
    /\ (pc = "scan" /\ inEndpoint /\ pathMatchesFlag /\ methodMatches
          /\ ResponsesNested(lines, opened[Len(opened)].at, detailIdx))
       => NoCrossing(lines, opened[Len(opened)].at, detailIdx)
    /\ \A e \in Scans : \A c \in Range(e.finalized) :
          ResponsesNested(DocOf(e), c.at, c.idx) => NoCrossing(DocOf(e), c.at, c.idx)

\* a query for the first verb: the buffer of the first method holds a
\* responses line whose lookahead was cut short by the second method key,
\* which has a responses line of its own
C6_Witness ==
    /\ pc = "scan" /\ inEndpoint /\ pathMatchesFlag /\ methodMatches
    /\ method # <<>>
    /\ \E k \in DOMAIN detailIdx : \E j \in 1..(Len(lines) - 1) : \E r \in 1..(Len(lines) - 1) :
          /\ HasMarker(lines[detailIdx[k] + 1], <<"r","e","s","p","o","n","s","e","s",":">>)
          /\ detailIdx[k] + LookaheadGuard < Len(lines)
          /\ detailIdx[k] < j /\ j < detailIdx[k] + LookaheadLimit
          /\ SiblingMethodAt(lines, opened[Len(opened)].at, j)
          /\ j < r /\ HasMarker(lines[r + 1], <<"r","e","s","p","o","n","s","e","s",":">>)
          /\ detailIdx[Len(detailIdx)] = j - 1

(***************************************************************************)
(* C7.  The number N of the header "Found N endpoint(s) matching path"     *)
(* equals the number of endpoint renderings in the report.  The code       *)
(* counts the documents that have a match instead.                         *)
(***************************************************************************)
C7_CountIsRenderings ==
    \A r \in Range(responses) :
        (r.kind = "result" /\ r.text # <<>> /\ HasPrefix(r.text[1], <<E_target>>))
        => HasPrefix(r.text[1],
              <<E_target>> \o <<" ","F","o","u","n","d"," ">> \o Itoa(NumRenderings(r.text)) \o <<" ","e","n","d","p","o","i","n","t","(","s",")">>)

HasRoot(doc) == \E k \in DOMAIN doc : TrimSpace(doc[k]) = RootMarker

(***************************************************************************)
(* C8.  A document with no line whose trimmed text is exactly "paths:"     *)
(* gives an empty result for every path and method filter.                 *)
(***************************************************************************)
C8_NoRootNoMatch ==
    \A e \in Scans : ~HasRoot(DocOf(e)) => e.result = <<>>

\* without a root marker, a path key that matches the query followed by a
\* method key that passes the filter
C8_Witness ==
    \E e \in Scans :
        /\ ~HasRoot(DocOf(e))
        /\ e.result = <<>>
        /\ e.searchPath = Q_users
        /\ e.method = <<"G","E","T">>
        /\ \E a \in DOMAIN DocOf(e) : \E b \in DOMAIN DocOf(e) :
              a < b /\ DocOf(e)[a] = L_users /\ DocOf(e)[b] = L_get

(***************************************************************************)
(* C9.  pathMatches is reflexive, and it is true whenever the query        *)
(* occurs in the candidate path as a substring.                            *)
(***************************************************************************)
C9_ReflexiveAndSubstring ==
    pmCalled => /\ (pmEndpoint = pmSearch => pmResult)
                /\ (OccursIn(pmSearch, pmEndpoint) => pmResult)

\* a query that occurs inside the path, not at its start
C9_Witness ==
    pmCalled /\ pmEndpoint = P_cards_blocked /\ pmSearch = P_blocked /\ pmResult

(***************************************************************************)
(* C10.  The scan is a function of the document and the query: two scans   *)
(* of the same content with the same path and method give the same         *)
(* result, whatever was scanned before them.                               *)
(***************************************************************************)
C10_ScanIsPure ==
    \A e1 \in Scans : \A e2 \in Scans :
        (DocOf(e1) = DocOf(e2) /\ e1.searchPath = e2.searchPath /\ e1.method = e2.method)
        => e1.result = e2.result

\* the same content scanned first and again after a different document
C10_Witness ==
    /\ Len(scanLog) >= 3
    /\ DocOf(scanLog[1]) = DocOf(scanLog[3])
    /\ DocOf(scanLog[2]) # DocOf(scanLog[1])
    /\ scanLog[1].searchPath = scanLog[3].searchPath
    /\ scanLog[1].method = scanLog[3].method
    /\ scanLog[1].result # <<>>
    /\ scanLog[2].result # <<>>
    /\ scanLog[1].result = scanLog[3].result

\* the text of the report that tells that nothing was found
NoMatchText(m) ==
    <<<<E_cross>> \o <<" ","N","o"," ","e","n","d","p","o","i","n","t","s"," ","f","o","u","n","d"," ","m","a","t","c","h","i","n","g"," ","p","a","t","h"," ","'">> \o m.path \o <<"'">>
         \o (IF m.hasMethod THEN <<" ","w","i","t","h"," ","m","e","t","h","o","d"," ">> \o ToUpper(m.method) ELSE <<>>),
      <<>>,
      <<"T","i","p",":"," ","T","r","y"," ","s","e","a","r","c","h","i","n","g"," ","w","i","t","h"," ","a"," ","p","a","r","t","i","a","l"," ","p","a","t","h"," ","l","i","k","e"," ","'","/","c","a","r","d","s","'"," ","o","r"," ","'","/","u","s","e","r","s","'">>>>

\* the call id went through the document loop and no document gave a match
NothingFound(id) ==
    /\ IsEndpointCall(received[id])
    /\ received[id].hasPath
    /\ listable
    /\ \A e \in Range(ScansFor(id)) : e.result = <<>>

(***************************************************************************)
(* C11.  When no document yields a match, the call is answered with one    *)
(* success result whose text is exactly the line "No endpoints found       *)
(* matching path '<path>'", with " with method <M>" appended only when a   *)
(* method filter was given, an empty line and the retry tip: no count      *)
(* header, no endpoint rendering, no error.                                *)
(***************************************************************************)
C11_NoMatchReport ==
    \A id \in Handled :
        NothingFound(id)
        => /\ Cardinality(ResponsesTo(id)) = 1
           /\ \A k \in ResponsesTo(id) :
                 /\ responses[k].kind = "result"
                 /\ responses[k].text = NoMatchText(received[id])

\* documents were scanned for /missing with a method filter, without a match
C11_Witness ==
    \E id \in Handled :
        /\ NothingFound(id)
        /\ received[id].path = Q_missing
        /\ received[id].hasMethod
        /\ Len(ScansFor(id)) >= 2
        /\ \E k \in ResponsesTo(id) : responses[k].kind = "result"

\* the listed files that GetYAMLFile can retrieve, in listing order
Retrievable ==
    SelectSeq(ListYAMLFiles(bucket, NoString),
              LAMBDA k : GetYAMLFile(bucket, bucket[k].key) = "ok")

\* the report built from a sequence of scans
ReportFrom(es, id) ==
    LET found == SelectSeq(es, LAMBDA e : e.result # <<>>)
    IN  Report([k \in 1..Len(found) |->
                   FoundBlock(extractFileName(bucket[found[k].file].key), found[k].result)],
               received[id].path,
               IF received[id].hasMethod THEN ToUpper(received[id].method) ELSE <<>>)

\* the call id went through a document loop in which a retrieval failed
RetrievalFailed(id) ==
    /\ IsEndpointCall(received[id])
    /\ received[id].hasPath
    /\ listable
    /\ \E k \in Range(ListYAMLFiles(bucket, NoString)) : GetYAMLFile(bucket, bucket[k].key) # "ok"

(***************************************************************************)
(* C12.  If retrieving a document fails during get_endpoint_details, the   *)
(* document is skipped and the loop continues: the documents scanned are   *)
(* the retrievable ones in listing order, the call is answered with one    *)
(* success result, the report built from those scans, and no error         *)
(* response is sent.                                                       *)
(***************************************************************************)
C12_FailedDocumentSkipped ==
    \A id \in Handled :
        RetrievalFailed(id)
        => /\ [k \in 1..Len(ScansFor(id)) |-> ScansFor(id)[k].file] = Retrievable
           /\ Cardinality(ResponsesTo(id)) = 1
           /\ \A k \in ResponsesTo(id) :
                 /\ responses[k].kind = "result"
                 /\ responses[k].text = ReportFrom(ScansFor(id), id)

\* a document that cannot be retrieved lies between two that have a match
C12_Witness ==
    \E id \in Handled :
        /\ RetrievalFailed(id)
        /\ Len(bucket) = 3
        /\ GetYAMLFile(bucket, bucket[2].key) # "ok"
        /\ Len(ScansFor(id)) = 2
        /\ \A e \in Range(ScansFor(id)) : e.result # <<>>
        /\ \E k \in ResponsesTo(id) : responses[k].kind = "result"

(***************************************************************************)
(* C13.  A get_endpoint_details call whose path argument is missing, not   *)
(* a string or empty is rejected with an error response before any         *)
(* document is listed, retrieved or scanned.  The code accepts the empty   *)
(* path.                                                                   *)
(***************************************************************************)
C13_BadPathRejected ==
    \A id \in Handled :
        (IsEndpointCall(received[id]) /\ (~received[id].hasPath \/ received[id].path = <<>>))
        => /\ Cardinality(ResponsesTo(id)) = 1
           /\ \A k \in ResponsesTo(id) : responses[k].kind = "error"
           /\ S3CallsFor(id) = <<>>
           /\ ScansFor(id) = <<>>

\* every line index the scan has used is an index of the document
IndicesInRange ==
    /\ pc # "panic"
    /\ pc = "scan" => i \in 0..Len(lines)
    /\ pc = "scan" => \A k \in DOMAIN detailIdx : detailIdx[k] \in 0..(Len(lines) - 1)

\* a step taken inside the scan moves to the next line or returns to the
\* document loop
ScanAdvances ==
    pc = "scan" => \/ pc' = "scan" /\ i' = i + 1 /\ lines' = lines
                   \/ pc' = "loop"

(***************************************************************************)
(* C14.  The scan cannot fail: it makes no line access out of range, in    *)
(* the main loop or in the lookahead loop, it reaches no error state, and  *)
(* it terminates: the line index never exceeds the number of lines and     *)
(* every step of the scan either moves it to the next line or returns to   *)
(* the document loop.                                                      *)
(***************************************************************************)
C14_ScanCannotFail == []IndicesInRange /\ [][ScanAdvances]_vars

\* a lookahead has run up to the last line of the document
C14_Witness ==
    /\ pc = "scan"
    /\ i < Len(lines)
    /\ \E k \in DOMAIN detailIdx :
          /\ detailIdx[k] = Len(lines) - 1
          /\ detailIdx[k] > i
          /\ ~IsImportant(TrimSpace(lines[detailIdx[k] + 1]))

\* the method filter of the call a scan was made for, as the caller wrote it
FilterOf(e) == received[e.request].method
HasFilter(e) == received[e.request].hasMethod /\ received[e.request].method # <<>>

\* the key of the method block o of the scan e, as the document writes it
KeyOf(e, o) == TrimSuffix(TrimSpace(DocOf(e)[o.at + 1]), <<":">>)

(***************************************************************************)
(* C15.  The method filter is case-insensitive: two scans of the same      *)
(* document for the same path whose filters differ only in letter case     *)
(* give the same result, and a method key satisfies a filter that names    *)
(* the same verb, whatever the letter case of the key and of the filter.   *)
(***************************************************************************)
C15_MethodCaseInsensitive ==
    /\ \A e1 \in Scans : \A e2 \in Scans :
          (/\ HasFilter(e1) /\ HasFilter(e2)
           /\ DocOf(e1) = DocOf(e2)
           /\ e1.searchPath = e2.searchPath
           /\ ToLower(FilterOf(e1)) = ToLower(FilterOf(e2)))
          => e1.result = e2.result
    /\ \A e \in Scans : \A o \in Range(e.opened) :
          (HasFilter(e) /\ ToLower(KeyOf(e, o)) = ToLower(FilterOf(e))) => o.matches

\* a key written GET has satisfied the filters get, Get and GET, with the
\* same rendering
C15_Witness ==
    \E e1 \in Scans : \E e2 \in Scans : \E e3 \in Scans :
        /\ DocOf(e1) = DocOf(e2) /\ DocOf(e2) = DocOf(e3)
        /\ FilterOf(e1) = <<"g","e","t">> /\ FilterOf(e2) = <<"G","e","t">> /\ FilterOf(e3) = <<"G","E","T">>
        /\ \E o \in Range(e1.opened) : KeyOf(e1, o) = <<"G","E","T">> /\ o.matches
        /\ e1.result # <<>>
        /\ e1.result = e2.result /\ e2.result = e3.result

\* the message names a method, and a tool, that the server has
KnownMethod(m) ==
    m.rpc \in {"initialize", "initialized", "resources/list", "resources/read",
               "tools/list", "tools/call"}
KnownTool(m) == m.tool \in {"search_yaml_files", "list_yaml_files", "get_endpoint_details"}

\* the URI names an object of the configured bucket, and the key it names
UriPrefix == <<"s","3",":","/","/","s","p","e","c","s","/">>
ValidUri(uri) == HasPrefix(uri, UriPrefix) /\ Len(uri) > Len(UriPrefix)
KeyOfUri(uri) == SubSeq(uri, Len(UriPrefix) + 1, Len(uri))

\* the key has the extension .yaml or .yml, in any letter case
YamlKey(key) == HasSuffix(ToLower(key), <<".","y","a","m","l">>) \/ HasSuffix(ToLower(key), <<".","y","m","l">>)

\* the params of a known request cannot be read, or lack a required argument
InvalidParams(m) ==
    \/ m.rpc \in {"resources/read", "tools/call"} /\ ~m.paramsOk
    \/ m.rpc = "resources/read" /\ ~ValidUri(m.uri)
    \/ m.rpc = "tools/call" /\ m.tool = "search_yaml_files" /\ ~m.hasPattern
    \/ m.rpc = "tools/call" /\ m.tool = "get_endpoint_details" /\ ~m.hasPath

\* the operation of the S3 client that the request needs returns an error
StorageFails(m) ==
    IF m.rpc = "resources/read"
    THEN \/ ~YamlKey(KeyOfUri(m.uri))
         \/ ~\E k \in DOMAIN bucket : bucket[k].key = KeyOfUri(m.uri) /\ bucket[k].readable
    ELSE ~listable

\* the code that the failure of a message calls for
CodeFor(m) ==
    IF m.line = "garbage" THEN 0 - 32700
    ELSE IF ~KnownMethod(m) THEN 0 - 32601
    ELSE IF m.rpc = "tools/call" /\ m.paramsOk /\ ~KnownTool(m) THEN 0 - 32601
    ELSE IF InvalidParams(m) THEN 0 - 32602
    ELSE 0 - 32603

IsRead(m) == m.line = "request" /\ m.rpc = "resources/read" /\ m.paramsOk

(***************************************************************************)
(* C17.  resources/read validates the URI before any storage access: a     *)
(* URI that does not start with "s3://<bucket>/", or with nothing after    *)
(* that prefix, is answered with -32602 and no S3 call is made; a key      *)
(* without the extension .yaml or .yml is rejected without an S3 call.     *)
(***************************************************************************)
C17_UriValidatedFirst ==
    \A id \in Handled :
        IsRead(received[id])
        => /\ ~ValidUri(received[id].uri)
              => /\ S3CallsFor(id) = <<>>
                 /\ \A k \in ResponsesTo(id) :
                       responses[k].kind = "error" /\ responses[k].code = 0 - 32602
                 /\ ResponsesTo(id) # {}
           /\ (ValidUri(received[id].uri) /\ ~YamlKey(KeyOfUri(received[id].uri)))
              => /\ S3CallsFor(id) = <<>>
                 /\ \A k \in ResponsesTo(id) : responses[k].kind = "error"
                 /\ ResponsesTo(id) # {}

\* a URI of another bucket that names a key the configured bucket holds
C17_Witness ==
    \E id \in Handled : \E k \in ResponsesTo(id) :
        /\ IsRead(received[id])
        /\ received[id].uri = S3Uri(<<"o","t","h","e","r">>, K_api)
        /\ S3CallsFor(id) = <<>>
        /\ responses[k].code = 0 - 32602

\* the keys named by the file entries of a tool result, in order
KeyLabel == <<" "," "," ","-"," ","S","3"," ","K","e","y",":"," ">>
KeysIn(text) ==
    LET ls == SelectSeq(text, LAMBDA l : HasPrefix(l, KeyLabel))
    IN  [k \in 1..Len(ls) |-> SubSeq(ls[k], Len(KeyLabel) + 1, Len(ls[k]))]

\* the last element of a key
NameOfKey(key) ==
    IF \E k \in 1..Len(key) : key[k] = "/"
    THEN SubSeq(key, 1 + CHOOSE k \in 1..Len(key) :
                            key[k] = "/" /\ \A j \in (k + 1)..Len(key) : key[j] # "/", Len(key))
    ELSE key

\* the keys of the bucket, in listing order, that are YAML files and whose
\* name or key contains the pattern, letter case aside
KeysMatching(pattern) ==
    LET ks == [k \in 1..Len(bucket) |-> bucket[k].key]
    IN  SelectSeq(ks, LAMBDA key :
            /\ YamlKey(key)
            /\ \/ OccursIn(ToLower(pattern), ToLower(NameOfKey(key)))
               \/ OccursIn(ToLower(pattern), ToLower(key)))

\* the message is a call of the named tool that reaches its handler
IsToolCall(m, name) ==
    m.line = "request" /\ m.rpc = "tools/call" /\ m.paramsOk /\ m.tool = name

(***************************************************************************)
(* C18.  Listing and searching return only YAML files: every file of the   *)
(* document loop of get_endpoint_details, every resource of                *)
(* resources/list and every file entry of list_yaml_files and              *)
(* search_yaml_files has a key with the extension .yaml or .yml, letter    *)
(* case aside; and search_yaml_files returns exactly the listed files      *)
(* whose name or key contains the pattern, letter case aside, in listing   *)
(* order.                                                                  *)
(***************************************************************************)
C18_OnlyYamlFiles ==
    /\ \A k \in Range(files) : YamlKey(bucket[k].key)
    /\ \A id \in Handled : \A k \in ResponsesTo(id) :
          responses[k].kind = "result"
          => /\ received[id].rpc = "resources/list"
                => \A x \in Range(responses[k].items) : YamlKey(x.uri)
             /\ (IsToolCall(received[id], "list_yaml_files")
                   \/ IsToolCall(received[id], "search_yaml_files"))
                => \A key \in Range(KeysIn(responses[k].text)) : YamlKey(key)
             /\ IsToolCall(received[id], "search_yaml_files")
                => KeysIn(responses[k].text) = KeysMatching(received[id].pattern)

\* a search in upper case that finds a file by its name, beside a file with
\* the same name and another extension
C18_Witness ==
    \E id \in Handled : \E k \in ResponsesTo(id) :
        /\ IsToolCall(received[id], "search_yaml_files")
        /\ received[id].pattern = <<"A","P","I">>
        /\ responses[k].kind = "result"
        /\ KeysIn(responses[k].text) = <<K_api>>
        /\ \E j \in DOMAIN bucket : bucket[j].key = K_backup

\* line j of the document is a bare key at an indentation up to that of line r
StopLine(ls, r, j) ==
    /\ Indent(ls[j + 1]) <= Indent(ls[r + 1])
    /\ HasSuffix(TrimSpace(ls[j + 1]), <<":">>)
    /\ ~HasMarker(ls[j + 1], <<" ">>)

\* the lines that follow line r: up to 19 of them, and none at or after a
\* stop line
Follows(ls, r, j) ==
    /\ r < j /\ j <= r + 19 /\ j < Len(ls)
    /\ \A s \in (r + 1)..j : ~StopLine(ls, r, s)

RECURSIVE Ascending(_)
Ascending(S) ==
    IF S = {} THEN <<>>
    ELSE LET least == CHOOSE x \in S : \A y \in S : x <= y
         IN  <<least>> \o Ascending(S \ {least})

FollowingLines(ls, r) == Ascending({j \in 0..(Len(ls) - 1) : Follows(ls, r, j)})

\* the line starts a path, or is the key of an HTTP method
KeyLine(line) ==
    \/ IsPathKey(line)
    \/ /\ HasSuffix(TrimSpace(line), <<":">>)
       /\ ToLower(TrimSuffix(TrimSpace(line), <<":">>))
            \in {<<"g","e","t">>, <<"p","o","s","t">>, <<"p","u","t">>, <<"d","e","l","e","t","e">>, <<"p","a","t","c","h">>, <<"h","e","a","d">>, <<"o","p","t","i","o","n","s">>}

\* line r is seen while the method block opened at line m is open
SeenIn(ls, m, r) == r > m /\ r < Len(ls) /\ \A s \in (m + 1)..r : ~KeyLine(ls[s + 1])

\* the scan has just passed a line of the open method block, which has both
\* predicates true
JustSaw(r) ==
    /\ pc = "scan" /\ i = r + 1
    /\ inEndpoint /\ pathMatchesFlag /\ methodMatches
    /\ opened # <<>>
    /\ SeenIn(lines, opened[Len(opened)].at, r)

\* sequence t ends with sequence e
EndsWith(t, e) == Len(e) <= Len(t) /\ SubSeq(t, Len(t) - Len(e) + 1, Len(t)) = e

(***************************************************************************)
(* C19.  After every responses line that is seen while a method block      *)
(* with both predicates true is open, the lines that follow it are         *)
(* appended to the buffer whether or not they hold a marker, up to 19      *)
(* lines or the stop line: the buffer ends with the responses line and     *)
(* these lines.  The code appends none of them when the responses line is  *)
(* among the last ten lines of the document.                               *)
(***************************************************************************)
C19_LookaheadUnconditional ==
    \A r \in 0..(Len(lines) - 1) :
        (JustSaw(r) /\ HasMarker(lines[r + 1], <<"r","e","s","p","o","n","s","e","s",":">>))
        => EndsWith(detailIdx, <<r>> \o FollowingLines(lines, r))

Markers ==
    {<<"s","u","m","m","a","r","y",":">>, <<"d","e","s","c","r","i","p","t","i","o","n",":">>, <<"r","e","s","p","o","n","s","e","s",":">>, <<"r","e","q","u","e","s","t","B","o","d","y",":">>, <<"p","a","r","a","m","e","t","e","r","s",":">>,
     <<"s","c","h","e","m","a",":">>, <<"$","r","e","f",":">>, <<"t","y","p","e",":">>, <<"p","r","o","p","e","r","t","i","e","s",":">>, <<"e","x","a","m","p","l","e",":">>, <<"b","l","o","c","k","e","d","_","r","e","a","s","o","n">>}

Unmarked(line) == \A f \in Markers : ~HasMarker(line, f)

\* line j of the buffer idx of the method block opened at line m is brought
\* by a responses line of the block
BroughtByResponses(ls, m, idx, j) ==
    \E r \in Range(idx) :
        /\ SeenIn(ls, m, r)
        /\ HasMarker(ls[r + 1], <<"r","e","s","p","o","n","s","e","s",":">>)
        /\ Follows(ls, r, j)

\* every line of the buffer without a marker is brought by a responses line
OnlyMarkedOrBrought(ls, m, idx) ==
    \A j \in Range(idx) : Unmarked(ls[j + 1]) => BroughtByResponses(ls, m, idx, j)

(***************************************************************************)
(* C20.  A line that holds none of the marker substrings is in the buffer  *)
(* of a method block only if it is among the 19 lines that follow a        *)
(* responses line of that block and before the first bare key at an        *)
(* indentation up to that of the responses line; this holds of the open    *)
(* buffer and of every buffer that was rendered.                           *)
(***************************************************************************)
C20_UnmarkedOnlyAfterResponses ==
    /\ (pc = "scan" /\ inEndpoint /\ opened # <<>>)
       => OnlyMarkedOrBrought(lines, opened[Len(opened)].at, detailIdx)
    /\ \A e \in Scans : \A c \in Range(e.finalized) :
          OnlyMarkedOrBrought(DocOf(e), c.at, c.idx)

\* a rendered buffer holds a line without a marker
C20_Witness ==
    \E e \in Scans : \E c \in Range(e.finalized) : \E j \in Range(c.idx) :
        /\ Unmarked(DocOf(e)[j + 1])
        /\ BroughtByResponses(DocOf(e), c.at, c.idx, j)

\* the number of elements of a sequence that satisfy a test
CountIn(t, Test(_)) == Cardinality({k \in DOMAIN t : Test(t[k])})

\* the rendering shows the detail, plain or flagged
Shows(shown, detail) == shown = PlainLine(detail) \/ shown = FlaggedLine(detail)

(***************************************************************************)
(* C21.  Every line of the buffer handed to formatEndpointDetails appears  *)
(* in exactly one of the five sections of the rendering: each line is      *)
(* shown as many times as it occurs in the buffer, so none is left out     *)
(* and none is shown twice.  The code leaves out a line that has none of   *)
(* summary:, description:, parameters:, requestBody:, responses: and comes *)
(* before every responses line.                                            *)
(***************************************************************************)
C21_EveryLineInOneSection ==
    fmCalled
    => \A d \in Range(fmDetails) :
          CountIn(fmResult, LAMBDA shown : Shows(shown, d))
            = CountIn(fmDetails, LAMBDA detail : detail = d)

\* a method block is open in the scan
BlockOpen == pc = "scan" /\ inEndpoint /\ opened # <<>>

(***************************************************************************)
(* C22.  A method block accumulates only while nested deeper than its      *)
(* path key: every line that the main scan appended to the buffer of the   *)
(* open block (a line seen in the block that holds a marker) is indented   *)
(* more than the path key.  The code also appends a line at or above the   *)
(* indentation of the path key, unless that line is a bare key.            *)
(***************************************************************************)
C22_NestedDeeper ==
    BlockOpen
    => \A r \in Range(detailIdx) :
          (SeenIn(lines, opened[Len(opened)].at, r) /\ ~Unmarked(lines[r + 1]))
          => Indent(lines[r + 1]) > indentLevel

Blank(line) == TrimSpace(line) = <<>>

\* line r lies beneath the root marker at line m: no line from the marker
\* to it is indented as little as the marker
Beneath(ls, m, r) ==
    /\ m < r
    /\ TrimSpace(ls[m + 1]) = <<"p","a","t","h","s",":">>
    /\ \A s \in (m + 1)..r : Blank(ls[s + 1]) \/ Indent(ls[s + 1]) > Indent(ls[m + 1])

\* line r is at the shallowest indentation used beneath a root marker, ends
\* with a colon and holds no space
PathKeyExpected(ls, r) ==
    \E m \in 0..(r - 1) :
        /\ Beneath(ls, m, r)
        /\ ~Blank(ls[r + 1])
        /\ \A s \in 0..(Len(ls) - 1) :
              (Beneath(ls, m, s) /\ ~Blank(ls[s + 1])) => Indent(ls[s + 1]) >= Indent(ls[r + 1])
        /\ HasSuffix(TrimSpace(ls[r + 1]), <<":">>)
        /\ ~HasMarker(ls[r + 1], <<" ">>)

(***************************************************************************)
(* C23.  Path-key detection: when the scan has passed a line at the        *)
(* shallowest indentation used beneath the root marker whose trimmed text  *)
(* ends with a colon and holds no space, whatever the indentation width,   *)
(* the current path is the key, the baseline is its indentation, the path  *)
(* predicate is that of the key, and no method is open.  The code takes a  *)
(* line for a path key only at an indentation of at most 2.                *)
(***************************************************************************)
C23_PathKeyAtAnyWidth ==
    \A r \in 0..(Len(lines) - 1) :
        (pc = "scan" /\ i = r + 1 /\ PathKeyExpected(lines, r))
        => /\ currentPath = TrimSuffix(TrimSpace(lines[r + 1]), <<":">>)
           /\ indentLevel = Indent(lines[r + 1])
           /\ pathMatchesFlag = pathMatches(currentPath, path)
           /\ ~inEndpoint
           /\ ~methodMatches
           /\ endpointDetails = <<>>

\* the key of a line that ends with a colon
KeyText(line) == TrimSuffix(TrimSpace(line), <<":">>)

\* the line under the scan is, by its text and its place, the key of an HTTP
\* method of the current path
MethodKeyExpected ==
    /\ pathMatchesFlag
    /\ Indent(Line) > indentLevel
    /\ HasSuffix(TrimSpace(Line), <<":">>)
    /\ ToLower(KeyText(Line))
         \in {<<"g","e","t">>, <<"p","o","s","t">>, <<"p","u","t">>, <<"d","e","l","e","t","e">>, <<"p","a","t","c","h">>, <<"h","e","a","d">>, <<"o","p","t","i","o","n","s">>}

\* the step opens a method block
OpensBlock == Len(opened') = Len(opened) + 1

\* a step of the scan over one line
LineStep == pc = "scan" /\ i < Len(lines) /\ i' = i + 1

MethodKeyStep ==
    LineStep
    => /\ MethodKeyExpected <=> OpensBlock
       /\ OpensBlock => /\ currentMethod' = ToUpper(KeyText(Line))
                        /\ endpointDetails' = <<>>
                        /\ inEndpoint'

(***************************************************************************)
(* C24.  Method-key detection: a step of the scan opens a method block     *)
(* exactly when the line is seen while the path predicate is true, is      *)
(* indented more than the path key, ends with a colon and its key is,      *)
(* letter case aside, one of get, post, put, delete, patch, head, options; *)
(* the step records the verb in upper case and empties the buffer.  The    *)
(* code takes such a line for a path key when its indentation is at most   *)
(* 2.                                                                      *)
(***************************************************************************)
C24_MethodKeyDetection == [][MethodKeyStep]_vars

\* a blank line of the document, the empty text after the last newline aside
BlankLineAt(ls, r) == r + 1 < Len(ls) /\ Blank(ls[r + 1])

(***************************************************************************)
(* C25.  Blank lines are skipped by the scan: the buffer of a method block *)
(* never holds a blank line.  The code has no test for blank lines, and    *)
(* its lookahead appends them like any other line.                         *)
(***************************************************************************)
C25_BlankLinesSkipped ==
    pc = "scan" => \A r \in Range(detailIdx) : ~BlankLineAt(lines, r)

\* the texts of the rendering, written out
TheHeader == <<E_mag>> \o <<" ","*","*","G","E","T"," ","/","u","s","e","r","s","*","*">>
TheNoDetailLine == <<" "," "," ","N","o"," ","d","e","t","a","i","l","e","d"," ","i","n","f","o","r","m","a","t","i","o","n"," ","f","o","u","n","d",".">>
HeadingOrder ==
    <<<<" "," "," ">> \o <<E_memo>> \o <<" ","S","u","m","m","a","r","y",":">>,
      <<" "," "," ">> \o <<E_book>> \o <<" ","D","e","s","c","r","i","p","t","i","o","n",":">>,
      <<" "," "," ">> \o <<E_wrench>> \o <<" ","P","a","r","a","m","e","t","e","r","s",":">>,
      <<" "," "," ">> \o <<E_outbox>> \o <<" ","R","e","q","u","e","s","t"," ","B","o","d","y",":">>,
      <<" "," "," ">> \o <<E_inbox>> \o <<" ","R","e","s","p","o","n","s","e","s",":">>>>
IsHeading(shown) == \E n \in DOMAIN HeadingOrder : HeadingOrder[n] = shown
Rank(shown) == CHOOSE n \in DOMAIN HeadingOrder : HeadingOrder[n] = shown

(***************************************************************************)
(* C26.  The rendering is the header "<METHOD> <path>" followed by the     *)
(* single line "No detailed information found." exactly when the buffer    *)
(* is empty, and then it has no section heading.                           *)
(***************************************************************************)
C26_NoDetailRendering ==
    fmCalled
    => /\ fmResult[1] = TheHeader
       /\ (fmResult = <<TheHeader, TheNoDetailLine>>) <=> (fmDetails = <<>>)
       /\ (\E k \in DOMAIN fmResult : fmResult[k] = TheNoDetailLine) <=> (fmDetails = <<>>)
       /\ fmDetails = <<>> => \A k \in DOMAIN fmResult : ~IsHeading(fmResult[k])

\* the rendering of an empty buffer
C26_Witness ==
    fmCalled /\ fmDetails = <<>> /\ Len(fmResult) = 2 /\ fmResult[2] = TheNoDetailLine

\* the heading over position k of the rendering
HeadingOver(t, k) ==
    t[CHOOSE a \in 1..k : IsHeading(t[a]) /\ \A b \in (a + 1)..k : ~IsHeading(t[b])]

\* the details shown under a heading, in the order shown
ShownUnder(t, heading) ==
    LET at == {k \in DOMAIN t : k > 1 /\ ~IsHeading(t[k]) /\ HeadingOver(t, k) = heading}
        ks == Ascending(at)
    IN  [n \in 1..Len(ks) |->
            IF HasPrefix(t[ks[n]], <<" "," "," ">> \o <<E_red>> \o <<" ">>)
            THEN SubSeq(t[ks[n]], 6, Len(t[ks[n]]))
            ELSE SubSeq(t[ks[n]], 4, Len(t[ks[n]]))]

\* the elements of t occur in d in the same order
RECURSIVE IsSubsequence(_, _)
IsSubsequence(t, d) ==
    IF t = <<>> THEN TRUE
    ELSE IF d = <<>> THEN FALSE
    ELSE IF Head(t) = Head(d) THEN IsSubsequence(Tail(t), Tail(d))
    ELSE IsSubsequence(t, Tail(d))

(***************************************************************************)
(* C27.  In every rendering of a buffer that is not empty the sections     *)
(* come in the order Summary, Description, Parameters, Request Body,       *)
(* Responses; a heading is written only for a section that has a line;     *)
(* and the lines of each section keep the order in which they were         *)
(* collected.                                                              *)
(***************************************************************************)
C27_SectionOrder ==
    (fmCalled /\ fmDetails # <<>>)
    => /\ \A a \in DOMAIN fmResult : \A b \in DOMAIN fmResult :
             (a < b /\ IsHeading(fmResult[a]) /\ IsHeading(fmResult[b]))
             => Rank(fmResult[a]) < Rank(fmResult[b])
       /\ \A k \in DOMAIN fmResult :
             IsHeading(fmResult[k]) => (k < Len(fmResult) /\ ~IsHeading(fmResult[k + 1]))
       /\ Len(fmResult) > 1 => IsHeading(fmResult[2])
       /\ \A n \in DOMAIN HeadingOrder :
             IsSubsequence(ShownUnder(fmResult, HeadingOrder[n]), fmDetails)

\* a buffer collected in another order than the sections, with two lines of
\* one section
C27_Witness ==
    /\ fmCalled
    /\ fmDetails = <<L_responses, L_200, L_summary>>
    /\ fmResult = <<TheHeader, HeadingOrder[1], <<" "," "," ">> \o L_summary,
                    HeadingOrder[5], <<" "," "," ">> \o L_responses, <<" "," "," ">> \o L_200>>

IsFlagged(shown) == HasPrefix(shown, <<" "," "," ">> \o <<E_red>> \o <<" ">>)

(***************************************************************************)
(* C28.  A line of a rendering is flagged with the red mark exactly when   *)
(* it is filed under Responses and its lower-cased text contains           *)
(* blocked_reason; the lines of the other four sections are never flagged. *)
(***************************************************************************)
C28_FlaggedInResponsesOnly ==
    fmCalled
    => \A k \in DOMAIN fmResult :
          (k > 1 /\ ~IsHeading(fmResult[k]) /\ fmResult[k] # TheNoDetailLine)
          => LET underResponses == HeadingOver(fmResult, k) = HeadingOrder[5]
                 detail == IF IsFlagged(fmResult[k])
                           THEN SubSeq(fmResult[k], 6, Len(fmResult[k]))
                           ELSE SubSeq(fmResult[k], 4, Len(fmResult[k]))
             IN  IsFlagged(fmResult[k])
                   <=> (underResponses /\ OccursIn(<<"b","l","o","c","k","e","d","_","r","e","a","s","o","n">>, ToLower(detail)))

\* the same line, with the field written in capitals, under Description
\* without the mark and under Responses with it
C28_Witness ==
    /\ fmCalled
    /\ fmDetails = <<L_descBlocked, L_responses, L_descBlocked>>
    /\ fmResult = <<TheHeader, HeadingOrder[2], <<" "," "," ">> \o L_descBlocked,
                    HeadingOrder[5], <<" "," "," ">> \o L_responses,
                    <<" "," "," ">> \o <<E_red>> \o <<" ">> \o L_descBlocked>>

\* the renderings of a sequence of calls, one after the other
RECURSIVE Renderings(_)
Renderings(calls) ==
    IF calls = <<>> THEN <<>> ELSE Head(calls).rendering \o Renderings(Tail(calls))

\* the names in the "Found in" lines of a report, in order
FoundInLabel == <<E_page>> \o <<" ","*","*","F","o","u","n","d"," ","i","n"," ">>
NamesIn(text) ==
    LET ls == SelectSeq(text, LAMBDA l : HasPrefix(l, FoundInLabel))
    IN  [k \in 1..Len(ls) |-> SubSeq(ls[k], Len(FoundInLabel) + 1, Len(ls[k]) - 3)]

\* the names of the documents, in listing order, in which a scan made for
\* the message id found something
NamesWithMatch(id) ==
    LET ks == SelectSeq([k \in 1..Len(bucket) |-> k],
                        LAMBDA k : \E e \in Range(ScansFor(id)) : e.file = k /\ e.result # <<>>)
    IN  [n \in 1..Len(ks) |-> NameOfKey(bucket[ks[n]].key)]

\* the calls were made for method blocks in the order of the document, each
\* with the path and the verb of its block
InDocumentOrder(e) ==
    /\ \A a \in DOMAIN e.finalized : \A b \in DOMAIN e.finalized :
          a < b => e.finalized[a].at < e.finalized[b].at
    /\ \A a \in DOMAIN e.finalized :
          \E o \in Range(e.opened) :
              /\ o.at = e.finalized[a].at
              /\ e.finalized[a].rendering[1]
                   = <<E_mag>> \o <<" ","*","*">> \o o.method \o <<" ">> \o o.path \o <<"*","*">>

(***************************************************************************)
(* C29.  Matches are emitted in scan order: the result of a scan is the    *)
(* renderings of its saved blocks one after the other, in the order of     *)
(* the blocks in the document, each rendered with the path and verb it     *)
(* had before the reset; the documents of a call are scanned in listing    *)
(* order and the groups of the report name the documents with a match in   *)
(* listing order.                                                          *)
(***************************************************************************)
C29_EmittedInScanOrder ==
    /\ \A e \in Scans : e.result = Renderings(e.finalized) /\ InDocumentOrder(e)
    /\ pc = "scan" => result = Renderings(finalized)
    /\ \A id \in Handled :
          /\ \A a \in DOMAIN ScansFor(id) : \A b \in DOMAIN ScansFor(id) :
                a < b => ScansFor(id)[a].file < ScansFor(id)[b].file
          /\ \A k \in ResponsesTo(id) :
                (IsEndpointCall(received[id]) /\ responses[k].kind = "result")
                => NamesIn(responses[k].text) = NamesWithMatch(id)

\* a report with two groups, the first from a document with two renderings
C29_Witness ==
    \E id \in Handled : \E k \in ResponsesTo(id) :
        /\ IsEndpointCall(received[id])
        /\ responses[k].kind = "result"
        /\ Len(NamesIn(responses[k].text)) = 2
        /\ Len(ScansFor(id)[1].finalized) = 2
        /\ ScansFor(id)[1].finalized[1].path # ScansFor(id)[1].finalized[2].path

\* line s is taken for a path key by the scan
DetectedPathKey(ls, s) ==
    /\ \E m \in 0..(s - 1) : TrimSpace(ls[m + 1]) = <<"p","a","t","h","s",":">>
    /\ TrimSpace(ls[s + 1]) # <<"p","a","t","h","s",":">>
    /\ HasSuffix(TrimSpace(ls[s + 1]), <<":">>)
    /\ ~HasMarker(ls[s + 1], <<" ">>)
    /\ Indent(ls[s + 1]) <= 2

\* the path key over the method key at line m
PathKeyOver(ls, m) ==
    CHOOSE s \in 0..(m - 1) :
        DetectedPathKey(ls, s) /\ \A t \in (s + 1)..m : ~DetectedPathKey(ls, t)

(***************************************************************************)
(* C30.  For each detected path key a scan emits at most one rendering;    *)
(* the verb of the rendering is the verb of the last method key detected   *)
(* under that path, and its detail lines were all collected after that     *)
(* method key.                                                             *)
(***************************************************************************)
C30_OneRenderingPerPath ==
    \A e \in Scans :
        /\ NumRenderings(e.result) = Len(e.finalized)
        /\ \A a \in DOMAIN e.finalized : \A b \in DOMAIN e.finalized :
              a # b => PathKeyOver(DocOf(e), e.finalized[a].at)
                         # PathKeyOver(DocOf(e), e.finalized[b].at)
        /\ \A a \in DOMAIN e.finalized :
              LET c == e.finalized[a]
              IN  /\ \A o \in Range(e.opened) :
                        PathKeyOver(DocOf(e), o.at) = PathKeyOver(DocOf(e), c.at)
                        => o.at <= c.at
                  /\ c.rendering[1]
                       = <<E_mag>> \o <<" ","*","*">> \o ToUpper(KeyText(DocOf(e)[c.at + 1])) \o <<" ">>
                           \o KeyText(DocOf(e)[PathKeyOver(DocOf(e), c.at) + 1]) \o <<"*","*">>
                  /\ c.details = LinesAt(DocOf(e), c.idx)
                  /\ \A j \in Range(c.idx) : j > c.at

\* a path with two method keys, both with details: one rendering, of the
\* second verb
C30_Witness ==
    \E e \in Scans : \E c \in Range(e.finalized) : \E o \in Range(e.opened) :
        /\ e.method = <<>>
        /\ o.at < c.at
        /\ PathKeyOver(DocOf(e), o.at) = PathKeyOver(DocOf(e), c.at)
        /\ o.method # c.method
        /\ c.idx # <<>>
        /\ \E j \in (o.at + 1)..(c.at - 1) : ~Unmarked(DocOf(e)[j + 1])

(***************************************************************************)
(* C31.  Each line of the document is appended to the buffer of a method   *)
(* block at most once: no line index occurs twice in the buffer.  The      *)
(* code appends a line brought by the lookahead again when the main scan   *)
(* reaches it, if the line holds a marker.                                 *)
(***************************************************************************)
C31_AppendedAtMostOnce ==
    pc = "scan"
    => \A a \in DOMAIN detailIdx : \A b \in DOMAIN detailIdx :
          a # b => detailIdx[a] # detailIdx[b]

(***************************************************************************)
(* C32.  Whenever the buffer handed to formatEndpointDetails holds a line, *)
(* the rendering has a section heading with a line under it; a rendering   *)
(* is never the header alone.  The code renders the header alone when      *)
(* every line of the buffer falls into no section.                         *)
(***************************************************************************)
C32_NeverBareHeader ==
    fmCalled
    => /\ Len(fmResult) > 1
       /\ fmDetails # <<>>
          => \E k \in DOMAIN fmResult :
                /\ IsHeading(fmResult[k])
                /\ k < Len(fmResult)
                /\ ~IsHeading(fmResult[k + 1])

\* the candidate has a parameter and its base holds the query
BaseHolds(candidate, query) ==
    \E n \in DOMAIN candidate :
        /\ candidate[n] = "{"
        /\ \A k \in 1..(n - 1) : candidate[k] # "{"
        /\ OccursIn(query, SubSeq(candidate, 1, n - 1))

(***************************************************************************)
(* C33.  pathMatches(candidate, query) is true exactly when the query is   *)
(* a substring of the candidate: the rule for the base of a parameterised  *)
(* path adds no match.                                                     *)
(***************************************************************************)
C33_SubstringOnly == pmCalled => (pmResult <=> OccursIn(pmSearch, pmEndpoint))

\* a parameterised candidate whose base holds the query
C33_Witness ==
    /\ pmCalled
    /\ pmResult
    /\ pmEndpoint = P_cards_pan
    /\ pmSearch = P_cards
    /\ BaseHolds(pmEndpoint, pmSearch)

\* line r follows the end of the path table: a line after the root marker at
\* the indentation of the root marker or less lies between them, or is r
PastTable(ls, r) ==
    \E m \in 0..(r - 1) :
        /\ TrimSpace(ls[m + 1]) = <<"p","a","t","h","s",":">>
        /\ \A t \in (m + 1)..r : TrimSpace(ls[t + 1]) # <<"p","a","t","h","s",":">>
        /\ \E t \in (m + 1)..r : ~Blank(ls[t + 1]) /\ Indent(ls[t + 1]) <= Indent(ls[m + 1])

PastTableStep ==
    (LineStep /\ PastTable(lines, i))
    => /\ currentPath' = currentPath
       /\ opened' = opened

(***************************************************************************)
(* C34.  The scan is confined to the path table: a step over a line that   *)
(* follows the end of the table (a key at the level of the root marker,    *)
(* or a line after it) sets no path and opens no method block.  The code   *)
(* never leaves the table: it takes a bare key at indentation 0 or 2 for   *)
(* a path key wherever it stands after the root marker.                    *)
(***************************************************************************)
C34_ConfinedToPathTable == [][PastTableStep]_vars

(***************************************************************************)
(* The message loop.                                                       *)
(***************************************************************************)
\* a line that the server does not answer
Silent(m) == m.line = "blank" \/ (m.line = "request" /\ m.rpc = "initialized")

\* the number of messages written for the line at position n
Answers(n) == Cardinality(ResponsesTo(n))

\* one message per line that calls for one, none for the others
OnePerLine == \A n \in DOMAIN received : Answers(n) = IF Silent(received[n]) THEN 0 ELSE 1

\* the messages are written in the order of the lines they answer
InInputOrder ==
    \A j \in DOMAIN responses : \A k \in DOMAIN responses :
        j < k => responses[j].answers < responses[k].answers

\* the id that the answer to the line m has to carry
IdFor(m) == IF m.line = "garbage" THEN NullId ELSE m.id

(***************************************************************************)
(* C35.  For any sequence of input lines the server writes at most one     *)
(* message per line, in input order: none for a blank line and for an      *)
(* initialized notification, and for every other line one response whose   *)
(* id is the id of the request (null for an unparseable line).  The code   *)
(* passes the id through a float64, which changes an integer id above      *)
(* 2^53.                                                                   *)
(***************************************************************************)
C35_OneMessagePerLine ==
    pc = "idle"
    => /\ OnePerLine
       /\ InInputOrder
       /\ \A n \in DOMAIN received : \A k \in ResponsesTo(n) :
             responses[k].id = IdFor(received[n])

\* there is a whole line that has not been read
WholeLineLeft == requests # <<>> /\ (terminated \/ Len(requests) > 1)

\* the line at position n was answered by an error
Failed(n) == \E k \in ResponsesTo(n) : responses[k].kind = "error"

\* a step that reads the next line
ReadsOn == LoopNext /\ received' = Append(received, Msg)

\* a line read so far was answered by an error
SomeFailed == \E n \in DOMAIN received : Failed(n)

(***************************************************************************)
(* C36.  The loop of Start returns nil at the end of the input and is not  *)
(* stopped by a failure: unless the context is cancelled Start returns     *)
(* only nil, and only when every whole line of the input has been read     *)
(* and every line that calls for a response has got one; and after a       *)
(* line that was answered by an error the loop can read every later line.  *)
(***************************************************************************)
C36_LoopSurvivesFailures ==
    /\ returned = "ctx" => cancelled
    /\ returned = "nil" => pc = "idle" /\ ~WholeLineLeft /\ OnePerLine
    /\ (pc = "idle" /\ returned = "none" /\ SomeFailed /\ WholeLineLeft) => ENABLED ReadsOn

\* Start has returned nil after a failed call of get_endpoint_details that
\* was followed by a request that got its result
C36_Witness ==
    /\ returned = "nil"
    /\ ~cancelled
    /\ \E a \in DOMAIN received : \E b \in DOMAIN received :
          /\ a < b
          /\ Failed(a)
          /\ IsToolCall(received[a], "get_endpoint_details")
          /\ \E k \in ResponsesTo(b) : responses[k].kind = "result"

\* once the context is done no line is read
AfterCancel == cancelled => received' = received

(***************************************************************************)
(* C37.  Once the context passed to Start is cancelled the loop handles no *)
(* further message and Start returns the error of the context: no step     *)
(* taken after the cancellation reads a line.                              *)
(* The code tests the context only between two messages: a cancellation    *)
(* that comes while the loop waits in ReadString does not keep the next    *)
(* line from being read and answered.                                      *)
(***************************************************************************)
C37_NothingHandledAfterCancel == [][AfterCancel]_vars

\* the request without its id
Unnumbered(m) == [m EXCEPT !.id = NullId]

\* what a response says, without its id
Body(r) == [kind |-> r.kind, code |-> r.code, text |-> r.text, items |-> r.items]

BodiesFor(n) == {Body(responses[k]) : k \in ResponsesTo(n)}

\* a request for resources or tools that is well formed
Servable(m) ==
    /\ m.line = "request"
    /\ m.rpc \in {"resources/list", "resources/read", "tools/list", "tools/call"}
    /\ m.rpc = "tools/call" => KnownTool(m)
    /\ ~InvalidParams(m)

NoInitializeBefore(n) == \A k \in 1..(n - 1) : received[k].rpc # "initialize"

(***************************************************************************)
(* C38.  Request handling is stateless across messages: for a fixed        *)
(* bucket, the same request gets the same response wherever it stands in   *)
(* the input; a well-formed request for resources or tools gets its        *)
(* result without an initialize request before it; and between two         *)
(* messages the handler has left nothing behind.                           *)
(***************************************************************************)
C38_Stateless ==
    (pc = "idle" /\ ~cancelled)
    => /\ HandlerIdle
       /\ bucket = LoopBucket /\ listable
       /\ \A a \in DOMAIN received : \A b \in DOMAIN received :
             Unnumbered(received[a]) = Unnumbered(received[b]) => BodiesFor(a) = BodiesFor(b)
       /\ \A n \in DOMAIN received :
             (Servable(received[n]) /\ NoInitializeBefore(n))
             => \E k \in ResponsesTo(n) : responses[k].kind = "result"

\* the same endpoint query answered twice with another request between, and
\* no initialize request in the input
C38_Witness ==
    /\ pc = "idle"
    /\ ~cancelled
    /\ Len(received) = 3
    /\ IsEndpointCall(received[1])
    /\ received[2].rpc = "resources/list"
    /\ Unnumbered(received[3]) = Unnumbered(received[1])
    /\ BodiesFor(1) = BodiesFor(3)
    /\ \E r \in BodiesFor(3) : r.kind = "result" /\ Len(r.text) > 3

\* the line at position n is a resources/list request that got its result
Listing(n) ==
    /\ received[n].line = "request"
    /\ received[n].rpc = "resources/list"
    /\ \E k \in ResponsesTo(n) : responses[k].kind = "result"

ListedBy(n) == (CHOOSE k \in ResponsesTo(n) : TRUE)

\* the YAML objects of the bucket, in the order of the listing
YamlObjects == SelectSeq(bucket, LAMBDA o : YamlKey(o.key))

(***************************************************************************)
(* C39.  URI round trip: every file returned by resources/list is exposed  *)
(* under the URI s3://<bucket>/<key>, which extractS3Key resolves to the   *)
(* key of the file, and a resources/read of a listed URI returns the       *)
(* content of that file.                                                   *)
(***************************************************************************)
C39_UriRoundTrip ==
    (pc = "idle" /\ ~cancelled)
    => \A n \in DOMAIN received :
          Listing(n)
          => LET items == responses[ListedBy(n)].items
             IN  /\ Len(items) = Len(YamlObjects)
                 /\ \A j \in DOMAIN items :
                       /\ items[j].uri = <<"s","3",":","/","/">> \o BucketName \o <<"/">> \o YamlObjects[j].key
                       /\ extractS3Key(items[j].uri) = YamlObjects[j].key
                       /\ \A r \in DOMAIN received :
                             (IsRead(received[r]) /\ received[r].uri = items[j].uri)
                             => \A k \in ResponsesTo(r) :
                                   /\ responses[k].kind = "result"
                                   /\ responses[k].items =
                                        <<[uri |-> items[j].uri, text |-> YamlObjects[j].lines]>>

\* a listing followed by the read of a URI that it lists
C39_Witness ==
    /\ pc = "idle"
    /\ ~cancelled
    /\ Len(received) = 2
    /\ Listing(1)
    /\ IsRead(received[2])
    /\ \E j \in DOMAIN responses[ListedBy(1)].items :
          responses[ListedBy(1)].items[j].uri = received[2].uri
    /\ \E k \in ResponsesTo(2) : responses[k].kind = "result"

=============================================================================
